---- MODULE Spec2Model ----
(***************************************************************************)
(* Model of the SSD1322 display driver (src/ssd1322.py, class Display):    *)
(* the packed GS4_HMSB display buffer, the mono palette, the bounds guard  *)
(* is_off_grid, the drawing entry points, the bitmap / sprite loaders and  *)
(* the transport: the chip-select, data/command and reset pins and the SPI *)
(* bus, with the log of what the last call did to them in `bus`.           *)
(*                                                                         *)
(* Coordinates are zero based.  The display buffer holds two pixels per    *)
(* byte, the even pixel in the high nibble.  One drawing call is made on   *)
(* each cleared frame; `pre` keeps the buffer as it was before that call   *)
(* and `call` the call itself with what its guard answered.                *)
(***************************************************************************)
EXTENDS Integers, Sequences, FiniteSets, TLC

VARIABLES buf, palette, pre, call, sprite, bus

vars == <<buf, palette, pre, call, sprite, bus>>

----------------------------------------------------------------------------
(* Bounds of the model *)

\* Display.__init__ width / height arguments (defaults 256 x 64).
Width == 5
Height == 4
\* Largest radius handed to draw_circle / fill_circle.
MaxR == 2
\* Largest width and height of a sprite or bitmap that fits the 2048 limit.
MaxDim == 2
\* "w x h cannot exceed 2048" of the loaders' docstrings.
SizeLimit == 2048

\* Grayscale arguments tried by the shape calls, and every nibble value.
Shades == {0, 9, 15}
Nibbles == 0..15

Xs == -1..Width
Ys == -1..Height
Ws == 0..(Width + 1)
Hs == 0..(Height + 1)
Radii == 0..MaxR
Dims == 1..MaxDim
Rotations == {0, 90, 180, 270}
\* Polygons drawn: triangles and squares, unrotated and turned by 45 degrees.
PolySides == {3, 4}
PolyRotations == {0, 45}
\* Texts drawn: letters of the font, "?" is not in it.
Texts ==
    {<<>>, <<"a">>, <<"a", "b">>, <<"b", "a">>, <<"?">>, <<"a", "?", "b">>,
     <<"b", "_", "a">>, <<"b", "a", "b">>, <<"m", "w">>}
TextXs == {0, 1, Width - 1}
TextYs == {0, 1, Height - 1}
TextShades == {9, 15}
Spacings == {0, 1, 2}
\* Image files on disc.
Files == {"ramp", "checker"}
\* Widths and heights handed to the bitmap calls: the small ones and one
\* past the size limit.
BitmapSizes == (Dims \X Dims) \cup {<<SizeLimit + 1, 1>>}

----------------------------------------------------------------------------
(* Geometry of the packed buffer: Display.__init__ *)

\* self.byte_width = -(-width // 2)
ByteWidth == (Width + 1) \div 2
\* self.buffer_length = self.byte_width * height
BufferLength == ByteWidth * Height
\* FrameBuffer(self.gs4_buf, width, height, GS4_HMSB): the stride of a GS4
\* buffer is the width rounded up to an even number of pixels.
Stride == 2 * ((Width + 1) \div 2)

Grid == (0..(Width - 1)) \X (0..(Height - 1))

Min(a, b) == IF a < b THEN a ELSE b
Max(a, b) == IF a > b THEN a ELSE b
Abs(a) == IF a < 0 THEN -a ELSE a

----------------------------------------------------------------------------
(* FrameBuffer, GS4_HMSB format *)

\* Index of the byte holding pixel (x, y).
PixelIndex(x, y) == (x + y * Stride) \div 2

\* A nibble write that does not keep the other nibble of the byte.
PutNibbleClobber(old, x, col) ==
    IF x % 2 = 1 THEN col % 16 ELSE 16 * (col % 16)

\* One byte after writing nibble col for pixel column x: odd x is the low
\* nibble, even x the high nibble; the other nibble is kept.
PutNibble(old, x, col) ==
    IF x % 2 = 1
      THEN (col % 16) + 16 * (old \div 16)
      ELSE 16 * (col % 16) + (old % 16)

\* gs4_fb.pixel(x, y, col)
SetPixel(b, x, y, col) ==
    [b EXCEPT ![PixelIndex(x, y)] = PutNibble(@, x, col)]

\* gs4_fb.pixel(x, y)
GetPixel(b, x, y) ==
    IF x % 2 = 1
      THEN b[PixelIndex(x, y)] % 16
      ELSE b[PixelIndex(x, y)] \div 16

\* The buffer after gs4_fb.pixel(x, y, V(x, y)) for every (x, y) of S, a set
\* of pixels of the grid.
Blend(b, S, V(_, _)) ==
    [i \in 0..(BufferLength - 1) |->
        LET y == i \div ByteWidth
            xe == 2 * (i % ByteWidth)
            b1 == IF <<xe, y>> \in S
                    THEN PutNibble(b[i], xe, V(xe, y)) ELSE b[i]
        IN  IF <<xe + 1, y>> \in S
              THEN PutNibble(b1, xe + 1, V(xe + 1, y)) ELSE b1]

\* The same with one value col for every pixel of S.
Paint(b, S, col) == Blend(b, S, LAMBDA x, y : col)

\* gs4_fb.fill(gs): every pixel of the grid
FbFill(b, gs) == Paint(b, Grid, gs)

\* A fill that stops one column and one row short.
FbFillRectShort(x, y, w, h) ==
    {p \in Grid :
       /\ Max(x, 0) <= p[1] /\ p[1] < Min(Width, x + w) - 1
       /\ Max(y, 0) <= p[2] /\ p[2] < Min(Height, y + h) - 1}

\* Pixels written by gs4_fb.fill_rect(x, y, w, h, c): the rectangle clipped
\* to the buffer.
FbFillRect(x, y, w, h) ==
    IF h < 1 \/ w < 1 \/ x + w <= 0 \/ y + h <= 0 \/ y >= Height \/ x >= Width
      THEN {}
      ELSE {p \in Grid :
              /\ Max(x, 0) <= p[1] /\ p[1] < Min(Width, x + w)
              /\ Max(y, 0) <= p[2] /\ p[2] < Min(Height, y + h)}

\* gs4_fb.hline(x, y, w, c) and gs4_fb.vline(x, y, h, c)
FbHline(x, y, w) == FbFillRect(x, y, w, 1)
FbVline(x, y, h) == FbFillRect(x, y, 1, h)

\* gs4_fb.rect(x, y, w, h, c): the four sides, each clipped
FbRect(x, y, w, h) ==
    FbFillRect(x, y, w, 1) \cup FbFillRect(x, y + h - 1, w, 1)
      \cup FbFillRect(x, y, 1, h) \cup FbFillRect(x + w - 1, y, 1, h)

\* gs4_fb.line(x1, y1, x2, y2, c): Bresenham stepping along the major axis;
\* a pixel off the buffer is not written.  (u, v) is the position along the
\* (possibly transposed) axes, i the steps taken.
RECURSIVE LineStep(_, _, _, _, _, _, _, _, _)
LineStep(i, u, v, e, du, dv, su, sv, steep) ==
    IF i >= du
      THEN {}
      ELSE LET k == IF e >= 0 THEN (e \div (2 * du)) + 1 ELSE 0
               v2 == v + k * sv
               e2 == e - k * 2 * du
           IN  {IF steep THEN <<v, u>> ELSE <<u, v>>}
                 \cup LineStep(i + 1, u + su, v2, e2 + 2 * dv,
                               du, dv, su, sv, steep)

FbLine(x1, y1, x2, y2) ==
    LET dx == Abs(x2 - x1)
        sx == IF x2 - x1 > 0 THEN 1 ELSE -1
        dy == Abs(y2 - y1)
        sy == IF y2 - y1 > 0 THEN 1 ELSE -1
        steep == dy > dx
        run == IF steep
                 THEN LineStep(0, y1, x1, 2 * dx - dy, dy, dx, sy, sx, TRUE)
                 ELSE LineStep(0, x1, y1, 2 * dy - dx, dx, dy, sx, sy, FALSE)
    IN  (run \cup {<<x2, y2>>}) \cap Grid

----------------------------------------------------------------------------
(* MonoPalette: a 2 x 1 GS4_HMSB buffer of one byte *)

\* MonoPalette.bg(color): self.pixel(0, 0, color)
PaletteBg(p, color) == PutNibble(p, 0, color)
\* MonoPalette.fg(color): self.pixel(1, 0, color)
PaletteFg(p, color) == PutNibble(p, 1, color)
\* MonoPalette.__init__: fg(15) then bg(0) on a zeroed byte
PaletteInit == PaletteBg(PaletteFg(0, 15), 0)

----------------------------------------------------------------------------
(* Display.is_off_grid *)

\* The guard with the upper limits compared by > instead of >=.
IsOffGridLoose(xmin, ymin, xmax, ymax) ==
    xmin < 0 \/ ymin < 0 \/ xmax > Width \/ ymax > Height

IsOffGrid(xmin, ymin, xmax, ymax) ==
    IF xmin < 0 THEN TRUE
    ELSE IF ymin < 0 THEN TRUE
    ELSE IF xmax >= Width THEN TRUE
    ELSE IF ymax >= Height THEN TRUE
    ELSE FALSE

----------------------------------------------------------------------------
(* Pixels written by the drawing entry points *)

\* Display.draw_pixel
DrawPixelSet(x, y) ==
    IF IsOffGrid(x, y, x, y) THEN {} ELSE {<<x, y>>}

\* Display.draw_hline
DrawHlineSet(x, y, w) ==
    IF IsOffGrid(x, y, x + w - 1, y) THEN {} ELSE FbHline(x, y, w)

\* Display.draw_vline
DrawVlineSet(x, y, h) ==
    IF IsOffGrid(x, y, x, y + h) THEN {} ELSE FbVline(x, y, h)

\* draw_line without the swap of the endpoints of a horizontal line.
DrawLineSetNoSwap(x1, y1, x2, y2) ==
    IF y1 = y2
      THEN DrawHlineSet(x1, y1, x2 - x1 + 1)
    ELSE IF x1 = x2
      THEN DrawVlineSet(x1, Min(y1, y2), Max(y1, y2) - Min(y1, y2) + 1)
    ELSE IF IsOffGrid(Min(x1, x2), Min(y1, y2), Max(x1, x2), Max(y1, y2))
      THEN {}
    ELSE FbLine(x1, y1, x2, y2)

\* Display.draw_line
DrawLineSet(x1, y1, x2, y2) ==
    IF y1 = y2
      THEN DrawHlineSet(Min(x1, x2), y1, Max(x1, x2) - Min(x1, x2) + 1)
    ELSE IF x1 = x2
      THEN DrawVlineSet(x1, Min(y1, y2), Max(y1, y2) - Min(y1, y2) + 1)
    ELSE IF IsOffGrid(Min(x1, x2), Min(y1, y2), Max(x1, x2), Max(y1, y2))
      THEN {}
    ELSE FbLine(x1, y1, x2, y2)

\* Display.draw_rectangle
DrawRectangleSet(x, y, w, h) == FbRect(x, y, w, h)

\* Display.fill_rectangle
FillRectangleSet(x, y, w, h) ==
    IF IsOffGrid(x, y, x + w - 1, y + h - 1) THEN {} ELSE FbFillRect(x, y, w, h)

\* The midpoint loop shared by draw_circle and fill_circle: the (x, y)
\* offsets after each pass of `while x < y`, from the state (f, dx, dy, x, y).
RECURSIVE CircleSteps(_, _, _, _, _)
CircleSteps(f, dx, dy, x, y) ==
    IF x < y
      THEN LET dec == f >= 0
               y2 == IF dec THEN y - 1 ELSE y
               dy2 == IF dec THEN dy + 2 ELSE dy
               f2 == IF dec THEN f + dy2 ELSE f
               x3 == x + 1
               dx3 == dx + 2
               f3 == f2 + dx3
           IN  {<<x3, y2>>} \cup CircleSteps(f3, dx3, dy2, x3, y2)
      ELSE {}

CircleOffsets(r) == CircleSteps(1 - r, 1, -r - r, 0, r)

\* Display.draw_circle
DrawCircleSet(x0, y0, r) ==
    DrawPixelSet(x0, y0 + r) \cup DrawPixelSet(x0, y0 - r)
      \cup DrawPixelSet(x0 + r, y0) \cup DrawPixelSet(x0 - r, y0)
      \cup UNION {
             DrawPixelSet(x0 + o[1], y0 + o[2]) \cup DrawPixelSet(x0 - o[1], y0 + o[2])
               \cup DrawPixelSet(x0 + o[1], y0 - o[2]) \cup DrawPixelSet(x0 - o[1], y0 - o[2])
               \cup DrawPixelSet(x0 + o[2], y0 + o[1]) \cup DrawPixelSet(x0 - o[2], y0 + o[1])
               \cup DrawPixelSet(x0 + o[2], y0 - o[1]) \cup DrawPixelSet(x0 - o[2], y0 - o[1])
             : o \in CircleOffsets(r)}

\* Display.fill_circle
FillCircleSet(x0, y0, r) ==
    DrawVlineSet(x0, y0 - r, 2 * r + 1)
      \cup UNION {
             DrawVlineSet(x0 + o[1], y0 - o[2], 2 * o[2] + 1)
               \cup DrawVlineSet(x0 - o[1], y0 - o[2], 2 * o[2] + 1)
               \cup DrawVlineSet(x0 - o[2], y0 - o[1], 2 * o[1] + 1)
               \cup DrawVlineSet(x0 + o[2], y0 - o[1], 2 * o[1] + 1)
             : o \in CircleOffsets(r)}

----------------------------------------------------------------------------
(* Display.draw_lines / draw_polygon / fill_polygon *)

\* Display.draw_lines: a line from every point of coords to the next.
DrawLinesSet(coords) ==
    UNION {DrawLineSet(coords[i][1], coords[i][2],
                       coords[i + 1][1], coords[i + 1][2])
             : i \in 1..(Len(coords) - 1)}

\* r * cos(t) and r * sin(t) for t = 2.0 * pi * s / sides + radians(rotate),
\* s = 0..sides, in IEEE double arithmetic.  Each coordinate is
\* <<floor, ceiling, d, lo, hi>>: d is the amount by which adding a centre
\* coordinate between lo and hi moves the sum across an integer (a value a
\* rounding error away from an integer).  The centre is between -2 and 8.
PolygonTrig(sides, rotate, r) ==
    CASE
         sides = 3 /\ rotate = 0 /\ r = 0 ->
           <<<<<<0, 0, 0, 0, -1>>, <<0, 0, 0, 0, -1>>>>,
             <<<<0, 0, 0, 0, -1>>, <<0, 0, 0, 0, -1>>>>,
             <<<<0, 0, 0, 0, -1>>, <<0, 0, 0, 0, -1>>>>,
             <<<<0, 0, 0, 0, -1>>, <<0, 0, 0, 0, -1>>>>>>
      [] sides = 3 /\ rotate = 0 /\ r = 1 ->
           <<<<<<1, 1, 0, 0, -1>>, <<0, 0, 0, 0, -1>>>>,
             <<<<-1, 0, 0, 0, -1>>, <<0, 1, 0, 0, -1>>>>,
             <<<<-1, 0, 0, 0, -1>>, <<-1, 0, 0, 0, -1>>>>,
             <<<<1, 1, 0, 0, -1>>, <<0, 0, -1, 1, 4>>>>>>
      [] sides = 3 /\ rotate = 0 /\ r = 2 ->
           <<<<<<2, 2, 0, 0, -1>>, <<0, 0, 0, 0, -1>>>>,
             <<<<-1, -1, 1, -2, 0>>, <<1, 2, 0, 0, -1>>>>,
             <<<<-1, -1, -1, 2, 8>>, <<-2, -1, 0, 0, -1>>>>,
             <<<<2, 2, 0, 0, -1>>, <<0, 0, -1, 1, 8>>>>>>
      [] sides = 3 /\ rotate = 0 /\ r = 3 ->
           <<<<<<3, 3, 0, 0, -1>>, <<0, 0, 0, 0, -1>>>>,
             <<<<-2, -1, 0, 0, -1>>, <<2, 3, 0, 0, -1>>>>,
             <<<<-2, -1, 0, 0, -1>>, <<-3, -2, 0, 0, -1>>>>,
             <<<<3, 3, 0, 0, -1>>, <<0, 0, -1, 1, 8>>>>>>
      [] sides = 3 /\ rotate = 45 /\ r = 0 ->
           <<<<<<0, 0, 0, 0, -1>>, <<0, 0, 0, 0, -1>>>>,
             <<<<0, 0, 0, 0, -1>>, <<0, 0, 0, 0, -1>>>>,
             <<<<0, 0, 0, 0, -1>>, <<0, 0, 0, 0, -1>>>>,
             <<<<0, 0, 0, 0, -1>>, <<0, 0, 0, 0, -1>>>>>>
      [] sides = 3 /\ rotate = 45 /\ r = 1 ->
           <<<<<<0, 1, 0, 0, -1>>, <<0, 1, 0, 0, -1>>>>,
             <<<<-1, 0, 0, 0, -1>>, <<0, 1, 0, 0, -1>>>>,
             <<<<0, 1, 0, 0, -1>>, <<-1, 0, 0, 0, -1>>>>,
             <<<<0, 1, 0, 0, -1>>, <<0, 1, 0, 0, -1>>>>>>
      [] sides = 3 /\ rotate = 45 /\ r = 2 ->
           <<<<<<1, 2, 0, 0, -1>>, <<1, 2, 0, 0, -1>>>>,
             <<<<-2, -1, 0, 0, -1>>, <<0, 1, 0, 0, -1>>>>,
             <<<<0, 1, 0, 0, -1>>, <<-2, -1, 0, 0, -1>>>>,
             <<<<1, 2, 0, 0, -1>>, <<1, 2, 0, 0, -1>>>>>>
      [] sides = 3 /\ rotate = 45 /\ r = 3 ->
           <<<<<<2, 3, 0, 0, -1>>, <<2, 3, 0, 0, -1>>>>,
             <<<<-3, -2, 0, 0, -1>>, <<0, 1, 0, 0, -1>>>>,
             <<<<0, 1, 0, 0, -1>>, <<-3, -2, 0, 0, -1>>>>,
             <<<<2, 3, 0, 0, -1>>, <<2, 3, 0, 0, -1>>>>>>
      [] sides = 4 /\ rotate = 0 /\ r = 0 ->
           <<<<<<0, 0, 0, 0, -1>>, <<0, 0, 0, 0, -1>>>>,
             <<<<0, 0, 0, 0, -1>>, <<0, 0, 0, 0, -1>>>>,
             <<<<0, 0, 0, 0, -1>>, <<0, 0, 0, 0, -1>>>>,
             <<<<0, 0, 0, 0, -1>>, <<0, 0, 0, 0, -1>>>>,
             <<<<0, 0, 0, 0, -1>>, <<0, 0, 0, 0, -1>>>>>>
      [] sides = 4 /\ rotate = 0 /\ r = 1 ->
           <<<<<<1, 1, 0, 0, -1>>, <<0, 0, 0, 0, -1>>>>,
             <<<<0, 0, 1, -1, -1>>, <<1, 1, 0, 0, -1>>>>,
             <<<<-1, -1, 0, 0, -1>>, <<0, 0, 1, -2, -1>>>>,
             <<<<0, 0, -1, 1, 2>>, <<-1, -1, 0, 0, -1>>>>,
             <<<<1, 1, 0, 0, -1>>, <<0, 0, -1, 1, 4>>>>>>
      [] sides = 4 /\ rotate = 0 /\ r = 2 ->
           <<<<<<2, 2, 0, 0, -1>>, <<0, 0, 0, 0, -1>>>>,
             <<<<0, 0, 1, -2, -1>>, <<2, 2, 0, 0, -1>>>>,
             <<<<-2, -2, 0, 0, -1>>, <<0, 0, 1, -2, -1>>>>,
             <<<<0, 0, -1, 1, 4>>, <<-2, -2, 0, 0, -1>>>>,
             <<<<2, 2, 0, 0, -1>>, <<0, 0, -1, 1, 8>>>>>>
      [] sides = 4 /\ rotate = 0 /\ r = 3 ->
           <<<<<<3, 3, 0, 0, -1>>, <<0, 0, 0, 0, -1>>>>,
             <<<<0, 0, 1, -2, -1>>, <<3, 3, 0, 0, -1>>>>,
             <<<<-3, -3, 0, 0, -1>>, <<0, 0, 1, -2, -1>>>>,
             <<<<0, 0, -1, 1, 8>>, <<-3, -3, 0, 0, -1>>>>,
             <<<<3, 3, 0, 0, -1>>, <<0, 0, -1, 1, 8>>>>>>
      [] sides = 4 /\ rotate = 45 /\ r = 0 ->
           <<<<<<0, 0, 0, 0, -1>>, <<0, 0, 0, 0, -1>>>>,
             <<<<0, 0, 0, 0, -1>>, <<0, 0, 0, 0, -1>>>>,
             <<<<0, 0, 0, 0, -1>>, <<0, 0, 0, 0, -1>>>>,
             <<<<0, 0, 0, 0, -1>>, <<0, 0, 0, 0, -1>>>>,
             <<<<0, 0, 0, 0, -1>>, <<0, 0, 0, 0, -1>>>>>>
      [] sides = 4 /\ rotate = 45 /\ r = 1 ->
           <<<<<<0, 1, 0, 0, -1>>, <<0, 1, 0, 0, -1>>>>,
             <<<<-1, 0, 0, 0, -1>>, <<0, 1, 0, 0, -1>>>>,
             <<<<-1, 0, 0, 0, -1>>, <<-1, 0, 0, 0, -1>>>>,
             <<<<0, 1, 0, 0, -1>>, <<-1, 0, 0, 0, -1>>>>,
             <<<<0, 1, 0, 0, -1>>, <<0, 1, 0, 0, -1>>>>>>
      [] sides = 4 /\ rotate = 45 /\ r = 2 ->
           <<<<<<1, 2, 0, 0, -1>>, <<1, 2, 0, 0, -1>>>>,
             <<<<-2, -1, 0, 0, -1>>, <<1, 2, 0, 0, -1>>>>,
             <<<<-2, -1, 0, 0, -1>>, <<-2, -1, 0, 0, -1>>>>,
             <<<<1, 2, 0, 0, -1>>, <<-2, -1, 0, 0, -1>>>>,
             <<<<1, 2, 0, 0, -1>>, <<1, 2, 0, 0, -1>>>>>>
      [] sides = 4 /\ rotate = 45 /\ r = 3 ->
           <<<<<<2, 3, 0, 0, -1>>, <<2, 3, 0, 0, -1>>>>,
             <<<<-3, -2, 0, 0, -1>>, <<2, 3, 0, 0, -1>>>>,
             <<<<-3, -2, 0, 0, -1>>, <<-3, -2, 0, 0, -1>>>>,
             <<<<2, 3, 0, 0, -1>>, <<-3, -2, 0, 0, -1>>>>,
             <<<<2, 3, 0, 0, -1>>, <<2, 3, 0, 0, -1>>>>>>

\* int(v + c0): the sum truncated towards zero.
TruncCoord(c0, e) ==
    LET base == IF c0 + e[1] >= 0 THEN c0 + e[1] ELSE c0 + e[2]
    IN  IF e[4] <= c0 /\ c0 <= e[5] THEN base + e[3] ELSE base

\* coords of draw_polygon and fill_polygon: sides + 1 points.
PolygonCoords(sides, x0, y0, r, rotate) ==
    [s \in 1..(sides + 1) |->
       <<TruncCoord(x0, PolygonTrig(sides, rotate, r)[s][1]),
         TruncCoord(y0, PolygonTrig(sides, rotate, r)[s][2])>>]

RECURSIVE EdgeWalk(_, _, _, _, _, _, _, _)
\* The loop `for x in range(x1, x2 + 1)` of fill_polygon from x on: the
\* pixels (column, row) it enters in xdict.
EdgeWalk(x, x2, y, error, dx, ady, ystep, steep) ==
    IF x > x2
      THEN {}
      ELSE {IF steep THEN <<y, x>> ELSE <<x, y>>}
             \cup (IF error - ady < 0
                     THEN EdgeWalk(x + 1, x2, y + ystep, error - ady + dx,
                                   dx, ady, ystep, steep)
                     ELSE EdgeWalk(x + 1, x2, y, error - ady,
                                   dx, ady, ystep, steep))

\* The pixels one side of the polygon enters in xdict.
EdgePoints(px1, py1, px2, py2) ==
    IF py1 = py2
      THEN {<<Min(px1, px2), py1>>, <<Max(px1, px2), py1>>}
      ELSE
        LET steep == Abs(py2 - py1) > Abs(px2 - px1)
            a1 == IF steep THEN py1 ELSE px1
            b1 == IF steep THEN px1 ELSE py1
            a2 == IF steep THEN py2 ELSE px2
            b2 == IF steep THEN px2 ELSE py2
            x1 == IF a1 > a2 THEN a2 ELSE a1
            y1 == IF a1 > a2 THEN b2 ELSE b1
            x2 == IF a1 > a2 THEN a1 ELSE a2
            y2 == IF a1 > a2 THEN b1 ELSE b2
        IN  EdgeWalk(x1, x2, y1, (x2 - x1) \div 2, x2 - x1, Abs(y2 - y1),
                     IF y1 < y2 THEN 1 ELSE -1, steep)

\* Every pixel entered in xdict: the starting point and the sides' pixels.
XDictPoints(coords) ==
    {coords[1]}
      \cup UNION {EdgePoints(coords[i][1], coords[i][2],
                             coords[i + 1][1], coords[i + 1][2])
                    : i \in 1..(Len(coords) - 1)}

\* xdict[y][0] and xdict[y][1]
XDictMin(pts, y) ==
    CHOOSE x \in {p[1] : p \in {q \in pts : q[2] = y}} :
        \A p \in pts : p[2] = y => x <= p[1]
XDictMax(pts, y) ==
    CHOOSE x \in {p[1] : p \in {q \in pts : q[2] = y}} :
        \A p \in pts : p[2] = y => x >= p[1]

\* Display.fill_polygon: one draw_hline per row of xdict.
FillPolygonSet(coords) ==
    LET pts == XDictPoints(coords)
    IN  UNION {DrawHlineSet(XDictMin(pts, y), y,
                            XDictMax(pts, y) - XDictMin(pts, y) + 2)
                 : y \in {p[2] : p \in pts}}

----------------------------------------------------------------------------
(* Image files and the loaders' source frame buffers *)

\* Byte i of f.read(...) of the file at path.
FileByte(path, i) ==
    IF path = "ramp" THEN (37 * i + 11) % 256
    ELSE IF i % 2 = 0 THEN 165 ELSE 90

RECURSIVE BitXor(_, _)
\* a ^ b of two non-negative integers
BitXor(a, b) ==
    IF a = 0 /\ b = 0
      THEN 0
      ELSE (((a % 2) + (b % 2)) % 2) + 2 * BitXor(a \div 2, b \div 2)

RECURSIVE Pow2(_)
Pow2(n) == IF n = 0 THEN 1 ELSE 2 * Pow2(n - 1)

\* Stride in pixels of a MONO_HMSB buffer of width w: w rounded up to 8.
MonoStride(w) == 8 * ((w + 7) \div 8)
\* Bytes a MONO_HMSB buffer of w x h pixels reads and writes.
MonoBytes(w, h) == (MonoStride(w) \div 8) * h

\* fb.pixel(x, y) of FrameBuffer(buf, w, h, MONO_HMSB) over the file's bytes:
\* bit x & 7 of byte (x + y * stride) >> 3.
MonoFilePixel(path, w, x, y) ==
    (FileByte(path, (x + y * MonoStride(w)) \div 8) \div Pow2(x % 8)) % 2

\* fb.pixel(x, y) of FrameBuffer(buf, w, h, GS4_HMSB) over the file's bytes.
GS4FilePixel(path, w, x, y) ==
    LET byte == FileByte(path, (x + y * (2 * ((w + 1) \div 2))) \div 2)
    IN  IF x % 2 = 1 THEN byte % 16 ELSE byte \div 16

\* An inversion of a mono pixel that changes nothing.
InvertMonoNone(v) == BitXor(v, 0)

\* The inversions of the three formats.
InvertGS4(v) == 15 - v
InvertMono(v) == BitXor(v, 1)
InvertRaw(v) == BitXor(v, 255)

\* getpixel(palette, col, 0) of the blit through the palette
PaletteLookup(p, col) == IF col % 2 = 1 THEN p % 16 ELSE p \div 16

\* The palette with only the entry that takes gs set.
SetPaletteOneEntry(p, invert, gs) ==
    IF invert THEN PaletteBg(p, gs) ELSE PaletteFg(p, gs)

\* The palette after the bg / fg calls of draw_sprite, draw_letter and
\* draw_bitmap_mono.
SetPalette(p, invert, gs) ==
    IF invert
      THEN PaletteFg(PaletteBg(p, gs), 0)
      ELSE PaletteFg(PaletteBg(p, 0), gs)

\* Pixels written by gs4_fb.blit(source, x, y) of a source of sw x sh pixels:
\* the source rectangle clipped to the buffer; pixel (px, py) of it is read
\* from (px - x, py - y) of the source.
BlitSet(x, y, sw, sh) ==
    IF x >= Width \/ y >= Height \/ -x >= sw \/ -y >= sh
      THEN {}
      ELSE {p \in Grid :
              /\ Max(0, x) <= p[1] /\ p[1] < Min(Width, x + sw)
              /\ Max(0, y) <= p[2] /\ p[2] < Min(Height, y + sh)}

----------------------------------------------------------------------------
(* Rotation of the loaders: the loops run y1 over range(h), x1 over        *)
(* range(w); each pass reads one source pixel and writes one pixel.        *)

\* load_sprite reading column 0 for every x1 of the 90 degree loop.
SpriteSrcColumn0(rotate, x1, y1, w, h) ==
    CASE rotate = 0 -> <<x1, y1>>
      [] rotate = 90 -> <<0, (h - 1) - y1>>
      [] rotate = 180 -> <<(w - 1) - x1, (h - 1) - y1>>
      [] rotate = 270 -> <<(w - 1) - x1, y1>>

\* The source pixel load_sprite reads at (x1, y1).
SpriteSrc(rotate, x1, y1, w, h) ==
    CASE rotate = 0 -> <<x1, y1>>
      [] rotate = 90 -> <<x1, (h - 1) - y1>>
      [] rotate = 180 -> <<(w - 1) - x1, (h - 1) - y1>>
      [] rotate = 270 -> <<(w - 1) - x1, y1>>

\* The source pixel draw_bitmap_mono reads at (x1, y1).
MonoSrc(rotate, x1, y1, w, h) ==
    CASE rotate = 0 -> <<x1, y1>>
      [] rotate = 90 -> <<x1, (h - 1) - y1>>
      [] rotate = 180 -> <<(w - 1) - x1, (h - 1) - y1>>
      [] rotate = 270 -> <<(w - 1) - x1, y1>>

\* The source pixel draw_bitmap_GS4 reads at (x1, y1).
GS4Src(rotate, x1, y1, w, h) ==
    CASE rotate = 0 -> <<x1, y1>>
      [] rotate = 90 -> <<x1, (h - 1) - y1>>
      [] rotate = 180 -> <<(w - 1) - x1, (h - 1) - y1>>
      [] rotate = 270 -> <<(w - 1) - x1, y1>>

\* Where the pass (x1, y1) writes, relative to the call's (x, y): 0 and 180
\* write (x1, y1), 90 and 270 write (y1, x1).  Given a written pixel (dx, dy)
\* this is the (x1, y1) of the pass that wrote it.
PassOf(rotate, dx, dy) ==
    IF rotate \in {90, 270} THEN <<dy, dx>> ELSE <<dx, dy>>

\* Width and height of what the loops write.
OutW(rotate, w, h) == IF rotate \in {90, 270} THEN h ELSE w
OutH(rotate, w, h) == IF rotate \in {90, 270} THEN w ELSE h

----------------------------------------------------------------------------
(* Display.load_sprite *)

\* Bytes of the buffer behind the frame buffer load_sprite returns.
SpriteAlloc(w, h, invert, rotate) ==
    IF rotate \in {90, 270}
      THEN h * (((w - 1) \div 8) + 1)
      ELSE w * h

\* Pixels of the frame buffer load_sprite returns.
SpritePixels(path, w, h, invert, rotate) ==
    [c \in (0..(OutW(rotate, w, h) - 1)) \X (0..(OutH(rotate, w, h) - 1)) |->
        LET pass == PassOf(rotate, c[1], c[2])
            src == SpriteSrc(rotate, pass[1], pass[2], w, h)
            bit == MonoFilePixel(path, w, src[1], src[2])
        IN  IF invert THEN InvertMono(bit) ELSE bit]

LoadedSprite(path, w, h, invert, rotate) ==
    [w |-> OutW(rotate, w, h), h |-> OutH(rotate, w, h),
     px |-> SpritePixels(path, w, h, invert, rotate),
     alloc |-> SpriteAlloc(w, h, invert, rotate),
     path |-> path, w0 |-> w, h0 |-> h, invert |-> invert, rotate |-> rotate]

----------------------------------------------------------------------------
(* Display.draw_sprite *)

DrawSpriteBuf(b, p, s, x, y, w, h, invert, gs) ==
    IF IsOffGrid(x, y, x + w - 1, y + h - 1)
      THEN b
      ELSE Blend(b, BlitSet(x, y, s.w, s.h),
                 LAMBDA px, py :
                   PaletteLookup(SetPalette(p, invert, gs),
                                 s.px[<<px - x, py - y>>]))

----------------------------------------------------------------------------
(* Display.draw_bitmap_GS4 / draw_bitmap_mono / draw_bitmap_raw *)

\* Pixels the loops `for y1 in range(h): for x1 in range(w)` write with
\* gs4_fb.pixel(...) into an ow x oh area at (x, y); gs4_fb.pixel ignores a
\* pixel off the buffer.
LoopSet(x, y, ow, oh) ==
    {p \in Grid : /\ x <= p[1] /\ p[1] < x + ow
                  /\ y <= p[2] /\ p[2] < y + oh}

\* GSMAP[bit][invert] of draw_bitmap_mono, GSMAP = ((0, 15), (15, 0))
GSMAP(bit, invert) ==
    IF bit = 0 THEN (IF invert THEN 15 ELSE 0)
               ELSE (IF invert THEN 0 ELSE 15)

BitmapGS4Buf(b, path, x, y, w, h, invert, rotate) ==
    IF rotate = 0 /\ ~invert
      THEN Blend(b, BlitSet(x, y, w, h),
                 LAMBDA px, py : GS4FilePixel(path, w, px - x, py - y))
      ELSE Blend(b, LoopSet(x, y, OutW(rotate, w, h), OutH(rotate, w, h)),
                 LAMBDA px, py :
                   LET pass == PassOf(rotate, px - x, py - y)
                       src == GS4Src(rotate, pass[1], pass[2], w, h)
                       v == GS4FilePixel(path, w, src[1], src[2])
                   IN  IF invert THEN InvertGS4(v) ELSE v)

BitmapMonoBuf(b, p, path, x, y, w, h, invert, gs, rotate) ==
    IF rotate = 0
      THEN Blend(b, BlitSet(x, y, w, h),
                 LAMBDA px, py :
                   PaletteLookup(SetPalette(p, invert, gs),
                                 MonoFilePixel(path, w, px - x, py - y)))
      ELSE Blend(b, LoopSet(x, y, OutW(rotate, w, h), OutH(rotate, w, h)),
                 LAMBDA px, py :
                   LET pass == PassOf(rotate, px - x, py - y)
                       src == MonoSrc(rotate, pass[1], pass[2], w, h)
                   IN  GSMAP(MonoFilePixel(path, w, src[1], src[2]), invert))

\* Byte (sx, sy) of the GS8 buffer draw_bitmap_raw builds, w and h already
\* swapped for 90 and 270: the file is read byte by byte into the rotated
\* position, then every byte is inverted.
RawPixel(path, w, h, invert, rotate, sx, sy) ==
    LET n == CASE rotate = 0 -> w * sy + sx
               [] rotate = 90 -> ((w - 1) - sx) * h + sy
               [] rotate = 180 -> (w * h - 1) - (w * sy + sx)
               [] rotate = 270 -> sx * h + ((h - 1) - sy)
        v == FileByte(path, n)
    IN  IF invert THEN InvertRaw(v) ELSE v

BitmapRawBuf(b, path, x, y, w, h, invert, rotate) ==
    LET w2 == OutW(rotate, w, h)
        h2 == OutH(rotate, w, h)
    IN  Blend(b, BlitSet(x, y, w2, h2),
              LAMBDA px, py :
                RawPixel(path, w2, h2, invert, rotate, px - x, py - y))

----------------------------------------------------------------------------
(* The font and Display.draw_letter / draw_text *)

\* Width and height of a letter's glyph in the font; an unsupported letter
\* has none, and "_" is a glyph with no rows.
GlyphSize(letter) ==
    CASE letter = "a" -> <<1, 2>>
      [] letter = "b" -> <<2, 2>>
      [] letter = "_" -> <<1, 0>>
      [] letter = "m" -> <<5, 2>>
      [] letter = "w" -> <<7, 2>>
      [] OTHER -> <<0, 0>>

\* font.get_letter(letter, rotate): the width and height of the bitmap it
\* returns, which is rotated already.
GetLetterSize(letter, rotate) ==
    IF rotate \in {90, 270}
      THEN <<GlyphSize(letter)[2], GlyphSize(letter)[1]>>
      ELSE GlyphSize(letter)

\* Pixel (sx, sy) of the bitmap font.get_letter returns.
GetLetterPixel(letter, rotate, sx, sy) ==
    IF letter = "a" THEN (sx + sy + 1) % 2 ELSE (sx + sy) % 2

\* Display.draw_letter on buffer b and palette p: the buffer and the palette
\* after it and the (w, h) it returns.
DrawLetter(b, p, x, y, letter, invert, gs, rotate) ==
    LET wh == GetLetterSize(letter, rotate)
        w == wh[1]
        h == wh[2]
        lx == IF rotate = 180 THEN x - w ELSE x
        ly == IF rotate = 270 THEN y - h ELSE y
    IN  IF w = 0
          THEN [buf |-> b, palette |-> p, w |-> w, h |-> h]
          ELSE [buf |-> Blend(b, BlitSet(lx, ly, w, h),
                              LAMBDA px, py :
                                PaletteLookup(SetPalette(p, invert, gs),
                                              GetLetterPixel(letter, rotate,
                                                             px - lx,
                                                             py - ly))),
                palette |-> SetPalette(p, invert, gs),
                w |-> w, h |-> h]

\* An advance that leaves the spacing out.
TextAdvanceNoSpacing(x, y, w, h, rotate, spacing) ==
    CASE rotate = 0 -> <<x + w, y>>
      [] rotate = 90 -> <<x, y + h>>
      [] rotate = 180 -> <<x - w, y>>
      [] rotate = 270 -> <<x, y - h>>

\* Display.draw_text: the position of the next letter.
TextAdvance(x, y, w, h, rotate, spacing) ==
    CASE rotate = 0 -> <<x + (w + spacing), y>>
      [] rotate = 90 -> <<x, y + (h + spacing)>>
      [] rotate = 180 -> <<x - (w + spacing), y>>
      [] rotate = 270 -> <<x, y - (h + spacing)>>

\* Display.draw_text: the rectangle between a letter and the next, filled by
\* fill_rectangle when spacing is not 0.
SpacingSet(x, y, w, h, rotate, spacing) ==
    IF spacing = 0
      THEN {}
      ELSE CASE rotate = 0 -> FillRectangleSet(x + w, y, spacing, h)
             [] rotate = 90 -> FillRectangleSet(x, y + h, w, spacing)
             [] rotate = 180 ->
                  FillRectangleSet(x - w - spacing, y, spacing, h)
             [] rotate = 270 ->
                  FillRectangleSet(x, y - h - spacing, w, spacing)

RECURSIVE TextLoop(_, _, _, _, _, _, _, _, _, _, _)
\* Display.draw_text from letter i of text on, with the loop's x and y: the
\* buffer, the palette, x and y when it returns, where each letter was handed
\* to draw_letter (at), and whether it returned at `Stop on error`.
TextLoop(b, p, x, y, text, i, invert, gs, rotate, spacing, at) ==
    IF i > Len(text)
      THEN [buf |-> b, palette |-> p, x |-> x, y |-> y, at |-> at,
            stopped |-> FALSE]
      ELSE
        LET l == DrawLetter(b, p, x, y, text[i], invert, gs, rotate)
            next == TextAdvance(x, y, l.w, l.h, rotate, spacing)
        IN  IF l.w = 0 \/ l.h = 0
              THEN [buf |-> l.buf, palette |-> l.palette, x |-> x, y |-> y,
                    at |-> at, stopped |-> TRUE]
              ELSE TextLoop(Paint(l.buf,
                                  SpacingSet(x, y, l.w, l.h, rotate, spacing),
                                  IF invert THEN gs ELSE 0),
                            l.palette, next[1], next[2], text, i + 1,
                            invert, gs, rotate, spacing,
                            Append(at, <<x, y>>))

----------------------------------------------------------------------------
(* Transport: the chip-select, data/command and reset pins, the SPI bus *)

\* Command opcodes and parameter values of class Display.
SET_COLUMN_ADDRESS == 21
WRITE_RAM == 92
SET_ROW_ADDRESS == 117
SET_REMAP_DUAL_COM_LINE_MODE == 160
SET_DISPLAY_START_LINE == 161
SET_DISPLAY_OFFSET == 162
SET_DISPLAY_MODE_NORMAL == 166
PARTIAL_DISPLAY_DISABLE == 169
SET_FUNCTION_SELECTION == 171
DISPLAY_SLEEP_ON == 174
DISPLAY_SLEEP_OFF == 175
SET_PHASE_LENGTH == 177
SET_FRONT_CLOCK_DIVIDER == 179
DISPLAY_ENHANCEMENT_A == 180
SET_GPIO == 181
SET_SECOND_PRECHARGE_PERIOD == 182
SELECT_DEFAULT_LINEAR_GRAY_SCALE_TABLE == 185
SET_PRECHARGE_VOLTAGE == 187
SET_VCOMH_VOLTAGE == 190
SET_CONTRAST_CURRENT == 193
MASTER_CURRENT_CONTROL == 199
SET_MULTIPLEX_RATIO == 202
DISPLAY_ENHANCEMENT_B == 209
SET_COMMAND_LOCK == 253
ENABLE_EXTERNAL_VSL == 0
ENABLE_INTERNAL_VSL == 2
NORMAL_GRAYSCALE_QUALITY == 176
ENHANCED_LOW_GRAY_SCALE_QUALITY == 248
RESERVED_ENHANCEMENT == 0
NORMAL_ENHANCEMENT == 2
COMMANDS_UNLOCK == 18
\* "offset = 28" of set_address: the first segment the panel is wired to.
SegmentOffset == 28
\* The two delays of reset, in milliseconds.
ResetLowMs == 50
ResetHighMs == 100

\* a | b of two bytes.
RECURSIVE BitOr(_, _)
BitOr(a, b) ==
    IF a = 0 THEN b
    ELSE IF b = 0 THEN a
    ELSE 2 * BitOr(a \div 2, b \div 2) + Max(a % 2, b % 2)

\* The levels of the pins and the state of the bus.
Pins(b) == [cs |-> b.cs, dc |-> b.dc, rst |-> b.rst, up |-> b.up]

\* One thing done to a pin, to the bus or to the clock, with the levels
\* of chip-select and data/command and the state of the bus as it happens.
BusEvent(b, ev, as, v) ==
    [ev |-> ev, as |-> as, v |-> v, cs |-> b.cs, dc |-> b.dc, up |-> b.up]

\* A public call begins: the record of the previous call is dropped, the
\* pins it left are kept.  `fault` says whether a write on a bus that was
\* de-initialised raises (it depends on the port's machine.SPI).
BusCall(b, fault) ==
    [b EXCEPT !.log = <<>>, !.was = Pins(b), !.raised = FALSE,
              !.fault = fault]

\* self.cs(v), self.dc(v), self.rst(v); nothing happens once the call
\* has raised.
SetCs(b, v) ==
    IF b.raised THEN b
    ELSE LET c == [b EXCEPT !.cs = v]
         IN  [c EXCEPT !.log = Append(@, BusEvent(c, "cs", "-", <<v>>))]

SetDc(b, v) ==
    IF b.raised THEN b
    ELSE LET c == [b EXCEPT !.dc = v]
         IN  [c EXCEPT !.log = Append(@, BusEvent(c, "dc", "-", <<v>>))]

SetRst(b, v) ==
    IF b.raised THEN b
    ELSE LET c == [b EXCEPT !.rst = v]
         IN  [c EXCEPT !.log = Append(@, BusEvent(c, "rst", "-", <<v>>))]

\* sleep_ms(n)
SleepMs(b, n) ==
    IF b.raised THEN b
    ELSE [b EXCEPT !.log = Append(@, BusEvent(b, "sleep_ms", "-", <<n>>))]

\* self.spi.write(data); `as` tells which of write_cmd and write_data
\* makes the call.
SpiWrite(b, as, data) ==
    IF b.raised THEN b
    ELSE IF ~b.up /\ b.fault THEN [b EXCEPT !.raised = TRUE]
    ELSE [b EXCEPT !.log = Append(@, BusEvent(b, "spi", as, data))]

\* self.spi.deinit()
SpiDeinit(b) ==
    IF b.raised THEN b
    ELSE LET c == [b EXCEPT !.up = FALSE]
         IN  [c EXCEPT !.log = Append(@, BusEvent(c, "deinit", "-", <<>>))]

\* Display.write_data(data)
WriteData(b, data) ==
    SetCs(SpiWrite(SetCs(SetDc(b, 1), 0), "data", data), 1)

\* Display.write_cmd(command, *args)
WriteCmd(b, command, args) ==
    LET c == SetCs(SpiWrite(SetCs(SetDc(b, 0), 0), "opcode", <<command>>), 1)
    IN  IF Len(args) > 0 THEN WriteData(c, args) ELSE c

\* Display.set_column_address(column_start, column_end)
SetColumnAddressBus(b, start, end) ==
    WriteCmd(b, SET_COLUMN_ADDRESS, <<start, end>>)

\* Display.set_row_address(row_start, row_end)
SetRowAddressBus(b, start, end) ==
    WriteCmd(b, SET_ROW_ADDRESS, <<start, end>>)

\* Display.set_address with the row window programmed first.
SetAddressRowFirst(b, x0, y0, x1, y1) ==
    WriteCmd(SetColumnAddressBus(SetRowAddressBus(b, y0, y1),
                                 x0 + SegmentOffset, x1 + SegmentOffset),
             WRITE_RAM, <<>>)

\* Display.set_address(x0, y0, x1, y1)
SetAddressBus(b, x0, y0, x1, y1) ==
    WriteCmd(SetRowAddressBus(SetColumnAddressBus(b, x0 + SegmentOffset,
                                                  x1 + SegmentOffset),
                              y0, y1),
             WRITE_RAM, <<>>)

\* The bytes of the display buffer in the order they are stored.
BufferBytes(b) == [i \in 1..BufferLength |-> b[i - 1]]

\* Display.present() sending all rows but the last.
PresentShortBus(b, buffer) ==
    WriteData(SetAddressBus(b, 0, 0, Width \div 4 - 1, Height - 1),
              SubSeq(BufferBytes(buffer), 1, BufferLength - ByteWidth))

\* Display.present()
PresentBus(b, buffer) ==
    WriteData(SetAddressBus(b, 0, 0, Width \div 4 - 1, Height - 1),
              BufferBytes(buffer))

\* Display.sleep(), Display.wake()
SleepBus(b) == WriteCmd(b, DISPLAY_SLEEP_ON, <<>>)
WakeBus(b) == WriteCmd(b, DISPLAY_SLEEP_OFF, <<>>)

\* Display.set_display_enhancement_a(external_vsl, enhanced_gs_quality)
EnhancementABus(b, external_vsl, enhanced_gs_quality) ==
    LET vsl == IF external_vsl THEN ENABLE_EXTERNAL_VSL
               ELSE ENABLE_INTERNAL_VSL
        enhanced_gs == IF enhanced_gs_quality
                       THEN ENHANCED_LOW_GRAY_SCALE_QUALITY
                       ELSE NORMAL_GRAYSCALE_QUALITY
    IN  WriteCmd(b, DISPLAY_ENHANCEMENT_A,
                 <<BitOr(vsl, 160), BitOr(enhanced_gs, 5)>>)

\* Display.set_display_enhancement_b(enhanced)
EnhancementBBus(b, enhanced) ==
    LET deb == IF enhanced THEN RESERVED_ENHANCEMENT ELSE NORMAL_ENHANCEMENT
    IN  WriteCmd(b, DISPLAY_ENHANCEMENT_B, <<BitOr(deb, 130), 32>>)

\* Display.reset()
ResetBus(b) ==
    SleepMs(SetRst(SleepMs(SetRst(b, 0), ResetLowMs), 1), ResetHighMs)

\* Display.cleanup() putting the display to sleep before the last frame.
CleanupSleepFirstBus(b, buffer) ==
    SpiDeinit(PresentBus(SleepBus(b), buffer))

\* Display.cleanup(), after its clear_buffers(): present, sleep, deinit.
CleanupBus(b, buffer) ==
    SpiDeinit(SleepBus(PresentBus(b, buffer)))

\* The commands of Display.__init__, each with its parameters.
InitCommands ==
    << <<SET_COMMAND_LOCK, COMMANDS_UNLOCK>>,
       <<DISPLAY_SLEEP_ON>>,
       <<SET_FRONT_CLOCK_DIVIDER, 145>>,
       <<SET_MULTIPLEX_RATIO, 63>>,
       <<SET_DISPLAY_OFFSET, 0>>,
       <<SET_DISPLAY_START_LINE, 0>>,
       <<SET_REMAP_DUAL_COM_LINE_MODE, 20, 17>>,
       <<SET_GPIO, 0>>,
       <<SET_FUNCTION_SELECTION, 1>>,
       <<DISPLAY_ENHANCEMENT_A, BitOr(ENABLE_EXTERNAL_VSL, 160),
         BitOr(ENHANCED_LOW_GRAY_SCALE_QUALITY, 5)>>,
       <<SET_CONTRAST_CURRENT, 159>>,
       <<MASTER_CURRENT_CONTROL, 15>>,
       <<SELECT_DEFAULT_LINEAR_GRAY_SCALE_TABLE>>,
       <<SET_PHASE_LENGTH, 226>>,
       <<DISPLAY_ENHANCEMENT_B, BitOr(RESERVED_ENHANCEMENT, 162), 32>>,
       <<SET_PRECHARGE_VOLTAGE, 31>>,
       <<SET_SECOND_PRECHARGE_PERIOD, 8>>,
       <<SET_VCOMH_VOLTAGE, 7>>,
       <<SET_DISPLAY_MODE_NORMAL>>,
       <<PARTIAL_DISPLAY_DISABLE>>,
       <<DISPLAY_SLEEP_OFF>> >>

\* The write_cmd calls of Display.__init__, from the i-th on, each one
\* worked out before the next (the singleton set is evaluated at once).
RECURSIVE SendCommands(_, _, _)
SendCommands(b, cmds, i) ==
    IF i > Len(cmds) THEN b
    ELSE CHOOSE r \in {SendCommands(c, cmds, i + 1) :
                          c \in {WriteCmd(b, Head(cmds[i]), Tail(cmds[i]))}} :
             TRUE

\* The pins and the bus as Display.__init__ is entered: nothing sent, the
\* bus handed over initialised.
BusAtPowerUp ==
    [cs |-> 1, dc |-> 0, rst |-> 1, up |-> TRUE, raised |-> FALSE,
     fault |-> FALSE, log |-> <<>>,
     was |-> [cs |-> 1, dc |-> 0, rst |-> 1, up |-> TRUE]]

\* Display.__init__ resetting the controller after the commands.
InitBusResetLast(buffer) ==
    PresentBus(ResetBus(SendCommands(
        SetRst(SetDc(SetCs(BusAtPowerUp, 1), 0), 1), InitCommands, 1)),
        buffer)

\* Display.__init__ from the pin set-up on: reset, the commands, present.
InitBus(buffer) ==
    PresentBus(SendCommands(ResetBus(
        SetRst(SetDc(SetCs(BusAtPowerUp, 1), 0), 1)), InitCommands, 1),
        buffer)

----------------------------------------------------------------------------
(* State after Display.__init__: a zeroed bytearray, cleared *)

ZeroBuffer == [i \in 0..(BufferLength - 1) |-> 0]

\* No sprite loaded yet.
NoSprite == [w |-> 0, h |-> 0]

Init ==
    /\ buf = FbFill(ZeroBuffer, 0)
    /\ palette = PaletteInit
    /\ pre = FbFill(ZeroBuffer, 0)
    /\ call = [op |-> "__init__"]
    /\ sprite = NoSprite
    /\ bus = InitBus(FbFill(ZeroBuffer, 0))

\* A frame that was cleared and not drawn on yet.
Fresh == call.op \in {"__init__", "clear_buffers"}

----------------------------------------------------------------------------
(* The calls *)

\* Display.clear_buffers(gs)
ClearBuffers ==
    \E gs \in Shades :
        /\ buf' = FbFill(buf, gs)
        /\ pre' = FbFill(buf, gs)
        /\ bus' = BusCall(bus, FALSE)
        /\ call' = [op |-> "clear_buffers", gs |-> gs]
        /\ UNCHANGED <<palette, sprite>>

\* Display.is_off_grid(xmin, ymin, xmax, ymax)
CallIsOffGrid ==
    /\ Fresh
    /\ \E xmin \in Xs, ymin \in Ys, xmax \in Xs, ymax \in Ys :
        /\ call' = [op |-> "is_off_grid", box |-> <<xmin, ymin, xmax, ymax>>,
                    off |-> IsOffGrid(xmin, ymin, xmax, ymax)]
        /\ pre' = buf
        /\ bus' = BusCall(bus, FALSE)
        /\ UNCHANGED <<buf, palette, sprite>>

\* Display.draw_pixel(x, y, gs)
DrawPixel ==
    /\ Fresh
    /\ \E x \in Xs, y \in Ys, gs \in Nibbles :
        /\ buf' = IF IsOffGrid(x, y, x, y) THEN buf ELSE SetPixel(buf, x, y, gs)
        /\ pre' = buf
        /\ bus' = BusCall(bus, FALSE)
        /\ call' = [op |-> "draw_pixel", x |-> x, y |-> y, gs |-> gs,
                    box |-> <<x, y, x, y>>, off |-> IsOffGrid(x, y, x, y)]
        /\ UNCHANGED <<palette, sprite>>

\* Display.draw_hline(x, y, w, gs)
DrawHline ==
    /\ Fresh
    /\ \E x \in Xs, y \in Ys, w \in Ws, gs \in Shades :
        /\ buf' = Paint(buf, DrawHlineSet(x, y, w), gs)
        /\ pre' = buf
        /\ bus' = BusCall(bus, FALSE)
        /\ call' = [op |-> "draw_hline", x |-> x, y |-> y, w |-> w, gs |-> gs,
                    box |-> <<x, y, x + w - 1, y>>,
                    off |-> IsOffGrid(x, y, x + w - 1, y)]
        /\ UNCHANGED <<palette, sprite>>

\* Display.draw_vline(x, y, h, gs)
DrawVline ==
    /\ Fresh
    /\ \E x \in Xs, y \in Ys, h \in Hs, gs \in Shades :
        /\ buf' = Paint(buf, DrawVlineSet(x, y, h), gs)
        /\ pre' = buf
        /\ bus' = BusCall(bus, FALSE)
        /\ call' = [op |-> "draw_vline", x |-> x, y |-> y, h |-> h, gs |-> gs,
                    box |-> <<x, y, x, y + h>>,
                    off |-> IsOffGrid(x, y, x, y + h)]
        /\ UNCHANGED <<palette, sprite>>

\* Display.draw_line(x1, y1, x2, y2, gs)
DrawLine ==
    /\ Fresh
    /\ \E x1 \in Xs, y1 \in Ys, x2 \in Xs, y2 \in Ys, gs \in Shades :
        /\ buf' = Paint(buf, DrawLineSet(x1, y1, x2, y2), gs)
        /\ pre' = buf
        /\ bus' = BusCall(bus, FALSE)
        /\ call' = [op |-> "draw_line", x1 |-> x1, y1 |-> y1,
                    x2 |-> x2, y2 |-> y2, gs |-> gs]
        /\ UNCHANGED <<palette, sprite>>

\* Display.draw_rectangle(x, y, w, h, gs)
DrawRectangle ==
    /\ Fresh
    /\ \E x \in Xs, y \in Ys, w \in Ws, h \in Hs, gs \in Shades :
        /\ buf' = Paint(buf, DrawRectangleSet(x, y, w, h), gs)
        /\ pre' = buf
        /\ bus' = BusCall(bus, FALSE)
        /\ call' = [op |-> "draw_rectangle", x |-> x, y |-> y,
                    w |-> w, h |-> h, gs |-> gs]
        /\ UNCHANGED <<palette, sprite>>

\* Display.fill_rectangle(x, y, w, h, gs)
FillRectangle ==
    /\ Fresh
    /\ \E x \in Xs, y \in Ys, w \in Ws, h \in Hs, gs \in Shades :
        /\ buf' = Paint(buf, FillRectangleSet(x, y, w, h), gs)
        /\ pre' = buf
        /\ bus' = BusCall(bus, FALSE)
        /\ call' = [op |-> "fill_rectangle", x |-> x, y |-> y,
                    w |-> w, h |-> h, gs |-> gs,
                    box |-> <<x, y, x + w - 1, y + h - 1>>,
                    off |-> IsOffGrid(x, y, x + w - 1, y + h - 1)]
        /\ UNCHANGED <<palette, sprite>>

\* Display.draw_circle(x0, y0, r, gs)
DrawCircle ==
    /\ Fresh
    /\ \E x0 \in Xs, y0 \in Ys, r \in Radii, gs \in Shades :
        /\ buf' = Paint(buf, DrawCircleSet(x0, y0, r), gs)
        /\ pre' = buf
        /\ bus' = BusCall(bus, FALSE)
        /\ call' = [op |-> "draw_circle", x0 |-> x0, y0 |-> y0,
                    r |-> r, gs |-> gs]
        /\ UNCHANGED <<palette, sprite>>

\* Display.fill_circle(x0, y0, r, gs)
FillCircle ==
    /\ Fresh
    /\ \E x0 \in Xs, y0 \in Ys, r \in Radii, gs \in Shades :
        /\ buf' = Paint(buf, FillCircleSet(x0, y0, r), gs)
        /\ pre' = buf
        /\ bus' = BusCall(bus, FALSE)
        /\ call' = [op |-> "fill_circle", x0 |-> x0, y0 |-> y0,
                    r |-> r, gs |-> gs]
        /\ UNCHANGED <<palette, sprite>>

\* Display.load_sprite(path, w, h, invert, rotate).  A frame buffer over a
\* bytearray shorter than its geometry needs is either refused by the
\* constructor (ValueError, no sprite is returned) or written past its end.
LoadSprite ==
    /\ Fresh
    /\ \E path \in Files, w \in Dims, h \in Dims,
          invert \in BOOLEAN, rotate \in Rotations :
        LET s == LoadedSprite(path, w, h, invert, rotate)
            short == MonoBytes(s.w, s.h) > s.alloc
        IN  \E raised \in (IF short THEN BOOLEAN ELSE {FALSE}) :
              /\ sprite' = IF raised THEN sprite ELSE s
              /\ call' = [op |-> "load_sprite", path |-> path, w |-> w,
                          h |-> h, invert |-> invert, rotate |-> rotate,
                          raised |-> raised, overflow |-> short /\ ~raised]
              /\ pre' = buf
              /\ bus' = BusCall(bus, FALSE)
              /\ UNCHANGED <<buf, palette>>

\* Display.draw_sprite(fb, x, y, w, h, invert, gs) of the loaded sprite,
\* with the sprite's width and height
DrawSprite ==
    /\ Fresh
    /\ sprite.w > 0
    /\ \E x \in Xs, y \in Ys, invert \in BOOLEAN, gs \in Shades :
        LET off == IsOffGrid(x, y, x + sprite.w - 1, y + sprite.h - 1)
        IN  /\ buf' = DrawSpriteBuf(buf, palette, sprite, x, y,
                                    sprite.w, sprite.h, invert, gs)
            /\ palette' = IF off THEN palette
                          ELSE SetPalette(palette, invert, gs)
            /\ pre' = buf
            /\ bus' = BusCall(bus, FALSE)
            /\ call' = [op |-> "draw_sprite", x |-> x, y |-> y,
                        w |-> sprite.w, h |-> sprite.h,
                        invert |-> invert, gs |-> gs,
                        box |-> <<x, y, x + sprite.w - 1, y + sprite.h - 1>>,
                        off |-> off, palette |-> palette]
            /\ UNCHANGED sprite

\* Display.draw_bitmap_GS4(path, x, y, w, h, invert, rotate)
DrawBitmapGS4 ==
    /\ Fresh
    /\ \E path \in Files, x \in Xs, y \in Ys, wh \in BitmapSizes,
          invert \in BOOLEAN, rotate \in Rotations :
        /\ buf' = BitmapGS4Buf(buf, path, x, y, wh[1], wh[2], invert, rotate)
        /\ pre' = buf
        /\ bus' = BusCall(bus, FALSE)
        /\ call' = [op |-> "draw_bitmap_GS4", path |-> path, x |-> x,
                    y |-> y, w |-> wh[1], h |-> wh[2],
                    invert |-> invert, rotate |-> rotate]
        /\ UNCHANGED <<palette, sprite>>

\* Display.draw_bitmap_mono(path, x, y, w, h, invert, gs, rotate)
DrawBitmapMono ==
    /\ Fresh
    /\ \E path \in Files, x \in Xs, y \in Ys, wh \in BitmapSizes,
          invert \in BOOLEAN, gs \in Shades, rotate \in Rotations :
        /\ buf' = BitmapMonoBuf(buf, palette, path, x, y, wh[1], wh[2],
                                invert, gs, rotate)
        /\ palette' = IF rotate = 0 THEN SetPalette(palette, invert, gs)
                      ELSE palette
        /\ pre' = buf
        /\ bus' = BusCall(bus, FALSE)
        /\ call' = [op |-> "draw_bitmap_mono", path |-> path, x |-> x,
                    y |-> y, w |-> wh[1], h |-> wh[2],
                    invert |-> invert, gs |-> gs, rotate |-> rotate]
        /\ UNCHANGED sprite

\* Display.draw_bitmap_raw(path, x, y, w, h, invert, rotate)
DrawBitmapRaw ==
    /\ Fresh
    /\ \E path \in Files, x \in Xs, y \in Ys, wh \in BitmapSizes,
          invert \in BOOLEAN, rotate \in Rotations :
        /\ buf' = BitmapRawBuf(buf, path, x, y, wh[1], wh[2], invert, rotate)
        /\ pre' = buf
        /\ bus' = BusCall(bus, FALSE)
        /\ call' = [op |-> "draw_bitmap_raw", path |-> path, x |-> x,
                    y |-> y, w |-> wh[1], h |-> wh[2],
                    invert |-> invert, rotate |-> rotate]
        /\ UNCHANGED <<palette, sprite>>

\* Display.draw_polygon(sides, x0, y0, r, gs, rotate)
DrawPolygon ==
    /\ Fresh
    /\ \E sides \in PolySides, x0 \in Xs, y0 \in Ys, r \in Radii,
          gs \in Shades, rotate \in PolyRotations :
        /\ buf' = Paint(buf, DrawLinesSet(PolygonCoords(sides, x0, y0, r,
                                                        rotate)), gs)
        /\ pre' = buf
        /\ bus' = BusCall(bus, FALSE)
        /\ call' = [op |-> "draw_polygon", sides |-> sides, x0 |-> x0,
                    y0 |-> y0, r |-> r, gs |-> gs, rotate |-> rotate,
                    coords |-> PolygonCoords(sides, x0, y0, r, rotate)]
        /\ UNCHANGED <<palette, sprite>>

\* Display.fill_polygon(sides, x0, y0, r, gs, rotate)
FillPolygon ==
    /\ Fresh
    /\ \E sides \in PolySides, x0 \in Xs, y0 \in Ys, r \in Radii,
          gs \in Shades, rotate \in PolyRotations :
        /\ buf' = Paint(buf, FillPolygonSet(PolygonCoords(sides, x0, y0, r,
                                                          rotate)), gs)
        /\ pre' = buf
        /\ bus' = BusCall(bus, FALSE)
        /\ call' = [op |-> "fill_polygon", sides |-> sides, x0 |-> x0,
                    y0 |-> y0, r |-> r, gs |-> gs, rotate |-> rotate,
                    coords |-> PolygonCoords(sides, x0, y0, r, rotate)]
        /\ UNCHANGED <<palette, sprite>>

\* Display.draw_text(x, y, text, font, invert, gs, rotate, spacing).  It has
\* no return statement with a value: the call returns None, written <<>>.
DrawText ==
    /\ Fresh
    /\ \E x \in TextXs, y \in TextYs, text \in Texts, invert \in BOOLEAN,
          gs \in TextShades, rotate \in Rotations, spacing \in Spacings :
        LET t == TextLoop(buf, palette, x, y, text, 1, invert, gs, rotate,
                          spacing, <<>>)
        IN  /\ buf' = t.buf
            /\ palette' = t.palette
            /\ pre' = buf
            /\ bus' = BusCall(bus, FALSE)
            /\ call' = [op |-> "draw_text", x |-> x, y |-> y, text |-> text,
                        invert |-> invert, gs |-> gs, rotate |-> rotate,
                        spacing |-> spacing, at |-> t.at, cx |-> t.x,
                        cy |-> t.y, stopped |-> t.stopped,
                        palette |-> palette, ret |-> <<>>]
            /\ UNCHANGED sprite

\* Whether a write on the bus raises in this call: never while the bus is
\* initialised, either way once it was de-initialised.
Faults == IF bus.up THEN {FALSE} ELSE BOOLEAN

\* Window corners handed to set_address.
WindowXs == {0, 1}
WindowYs == {0, Height - 1}

\* Display.draw_pixel(x, y) with the default gs=15
DrawPixelWhite ==
    /\ Fresh
    /\ \E x \in Xs, y \in Ys :
        /\ buf' = IF IsOffGrid(x, y, x, y) THEN buf
                   ELSE SetPixel(buf, x, y, 15)
        /\ pre' = buf
        /\ bus' = BusCall(bus, FALSE)
        /\ call' = [op |-> "draw_pixel", x |-> x, y |-> y, gs |-> 15,
                    box |-> <<x, y, x, y>>, off |-> IsOffGrid(x, y, x, y)]
        /\ UNCHANGED <<palette, sprite>>

\* Display.present()
Present ==
    \E fault \in Faults :
        /\ bus' = PresentBus(BusCall(bus, fault), buf)
        /\ pre' = buf
        /\ call' = [op |-> "present"]
        /\ UNCHANGED <<buf, palette, sprite>>

\* Display.clear(): clear_buffers() and present()
Clear ==
    \E fault \in Faults :
        /\ buf' = FbFill(buf, 0)
        /\ bus' = PresentBus(BusCall(bus, fault), FbFill(buf, 0))
        /\ pre' = buf
        /\ call' = [op |-> "clear"]
        /\ UNCHANGED <<palette, sprite>>

\* Display.cleanup(): clear(), sleep(), spi.deinit()
Cleanup ==
    \E fault \in Faults :
        /\ buf' = FbFill(buf, 0)
        /\ bus' = CleanupBus(BusCall(bus, fault), FbFill(buf, 0))
        /\ pre' = buf
        /\ call' = [op |-> "cleanup"]
        /\ UNCHANGED <<palette, sprite>>

\* Display.sleep() that also clears the buffer.
SleepClears ==
    \E fault \in Faults :
        /\ bus' = SleepBus(BusCall(bus, fault))
        /\ buf' = FbFill(buf, 0)
        /\ pre' = buf
        /\ call' = [op |-> "sleep"]
        /\ UNCHANGED <<palette, sprite>>

\* Display.sleep()
Sleep ==
    \E fault \in Faults :
        /\ bus' = SleepBus(BusCall(bus, fault))
        /\ pre' = buf
        /\ call' = [op |-> "sleep"]
        /\ UNCHANGED <<buf, palette, sprite>>

\* Display.wake()
Wake ==
    \E fault \in Faults :
        /\ bus' = WakeBus(BusCall(bus, fault))
        /\ pre' = buf
        /\ call' = [op |-> "wake"]
        /\ UNCHANGED <<buf, palette, sprite>>

\* Display.set_address(x0, y0, x1, y1)
SetAddress ==
    \E fault \in Faults, x0 \in WindowXs, x1 \in WindowXs,
       y0 \in WindowYs, y1 \in WindowYs :
        /\ bus' = SetAddressBus(BusCall(bus, fault), x0, y0, x1, y1)
        /\ pre' = buf
        /\ call' = [op |-> "set_address", x0 |-> x0, y0 |-> y0,
                    x1 |-> x1, y1 |-> y1]
        /\ UNCHANGED <<buf, palette, sprite>>

\* Display.set_display_enhancement_a(external_vsl, enhanced_gs_quality)
SetDisplayEnhancementA ==
    \E fault \in Faults, external_vsl \in BOOLEAN,
       enhanced_gs_quality \in BOOLEAN :
        /\ bus' = EnhancementABus(BusCall(bus, fault), external_vsl,
                                  enhanced_gs_quality)
        /\ pre' = buf
        /\ call' = [op |-> "set_display_enhancement_a",
                    external_vsl |-> external_vsl,
                    enhanced_gs_quality |-> enhanced_gs_quality]
        /\ UNCHANGED <<buf, palette, sprite>>

\* Display.set_display_enhancement_b(enhanced)
SetDisplayEnhancementB ==
    \E fault \in Faults, enhanced \in BOOLEAN :
        /\ bus' = EnhancementBBus(BusCall(bus, fault), enhanced)
        /\ pre' = buf
        /\ call' = [op |-> "set_display_enhancement_b",
                    enhanced |-> enhanced]
        /\ UNCHANGED <<buf, palette, sprite>>

Next ==
    \/ ClearBuffers
    \/ CallIsOffGrid
    \/ DrawPixel
    \/ DrawHline
    \/ DrawVline
    \/ DrawLine
    \/ DrawRectangle
    \/ FillRectangle
    \/ DrawCircle
    \/ FillCircle

Spec == Init /\ [][Next]_vars

\* The sprite calls on a cleared frame.
NextSprite ==
    \/ ClearBuffers
    \/ LoadSprite
    \/ DrawSprite

SpecSprite == Init /\ [][NextSprite]_vars

\* The bitmap calls on a cleared frame.
NextBitmap ==
    \/ ClearBuffers
    \/ DrawBitmapGS4
    \/ DrawBitmapMono
    \/ DrawBitmapRaw

SpecBitmap == Init /\ [][NextBitmap]_vars

\* The polygon calls on a cleared frame.
NextPolygon ==
    \/ ClearBuffers
    \/ DrawPolygon
    \/ FillPolygon

SpecPolygon == Init /\ [][NextPolygon]_vars

\* The text call on a cleared frame.
NextText ==
    \/ ClearBuffers
    \/ DrawText

SpecText == Init /\ [][NextText]_vars

\* The transport calls, between drawing calls on a cleared frame.
NextBus ==
    \/ ClearBuffers
    \/ DrawPixelWhite
    \/ Present
    \/ Clear
    \/ Cleanup
    \/ Sleep
    \/ Wake
    \/ SetAddress
    \/ SetDisplayEnhancementA
    \/ SetDisplayEnhancementB

SpecBus == Init /\ [][NextBus]_vars

----------------------------------------------------------------------------
(* The 90 degree rotation of the loaders applied over and over: each pass  *)
(* reads the frame buffer the pass before wrote, width and height swapped. *)

RotationKinds == {"load_sprite", "draw_bitmap_mono", "draw_bitmap_GS4"}

\* Pixel values of a source of the given loader.
KindValues(kind) == IF kind = "draw_bitmap_GS4" THEN Shades ELSE {0, 1}

\* The frame buffer one 90 degree pass of the loader writes from source s.
Rotated90(kind, s) ==
    [w |-> OutW(90, s.w, s.h), h |-> OutH(90, s.w, s.h),
     px |-> [c \in (0..(OutW(90, s.w, s.h) - 1))
                     \X (0..(OutH(90, s.w, s.h) - 1)) |->
               LET pass == PassOf(90, c[1], c[2])
                   src == CASE kind = "load_sprite" ->
                                 SpriteSrc(90, pass[1], pass[2], s.w, s.h)
                            [] kind = "draw_bitmap_mono" ->
                                 MonoSrc(90, pass[1], pass[2], s.w, s.h)
                            [] kind = "draw_bitmap_GS4" ->
                                 GS4Src(90, pass[1], pass[2], s.w, s.h)
               IN  s.px[src]]]

InitRot ==
    /\ buf = FbFill(ZeroBuffer, 0)
    /\ palette = PaletteInit
    /\ pre = FbFill(ZeroBuffer, 0)
    /\ bus = InitBus(FbFill(ZeroBuffer, 0))
    /\ \E kind \in RotationKinds, w \in Dims, h \in Dims :
         \E px \in [(0..(w - 1)) \X (0..(h - 1)) -> KindValues(kind)] :
           /\ sprite = [w |-> w, h |-> h, px |-> px]
           /\ call = [op |-> "rotate", kind |-> kind, passes |-> 0,
                      w |-> w, h |-> h, px |-> px]

RotatePass ==
    /\ call.op = "rotate"
    /\ call.passes < 4
    /\ sprite' = Rotated90(call.kind, sprite)
    /\ call' = [call EXCEPT !.passes = @ + 1]
    /\ UNCHANGED <<buf, palette, pre, bus>>

SpecRot == InitRot /\ [][RotatePass]_vars

----------------------------------------------------------------------------
(* Properties of the drawing calls *)

\* The last call wrote on the buffer through one bounds guard, recorded
\* with the box it was handed.
Guarded ==
    call.op \in {"is_off_grid", "draw_pixel", "draw_hline", "draw_vline",
                 "fill_rectangle"}

\* Whether a box leaves [0, Width) x [0, Height).
OutsideGrid(box) ==
    box[1] < 0 \/ box[2] < 0 \/ box[3] >= Width \/ box[4] >= Height

\* Bounding box of the shape the last drawing call asked for.
ShapeBox ==
    CASE call.op = "draw_pixel" -> <<call.x, call.y, call.x, call.y>>
      [] call.op = "draw_hline" ->
           <<call.x, call.y, call.x + call.w - 1, call.y>>
      [] call.op = "draw_vline" ->
           <<call.x, call.y, call.x, call.y + call.h - 1>>
      [] call.op = "draw_line" ->
           <<Min(call.x1, call.x2), Min(call.y1, call.y2),
             Max(call.x1, call.x2), Max(call.y1, call.y2)>>
      [] call.op \in {"draw_rectangle", "fill_rectangle"} ->
           <<call.x, call.y, call.x + call.w - 1, call.y + call.h - 1>>
      [] call.op \in {"draw_circle", "fill_circle"} ->
           <<call.x0 - call.r, call.y0 - call.r,
             call.x0 + call.r, call.y0 + call.r>>

ShapeOps ==
    {"draw_pixel", "draw_hline", "draw_vline", "draw_line", "draw_rectangle",
     "fill_rectangle", "draw_circle", "fill_circle"}

\* Every pixel of the grid holds V(p) where p is in S and is as before the
\* call elsewhere.
ExactlyPainted(S, gs) ==
    \A p \in Grid :
        GetPixel(buf, p[1], p[2]) =
            IF p \in S THEN gs ELSE GetPixel(pre, p[1], p[2])

\* C1: a drawing call whose requested bounding box leaves the grid is
\* skipped as a whole: the buffer is byte for byte as before the call.
C1_NoPartialDraw ==
    (/\ call.op \in ShapeOps
     /\ ShapeBox[1] <= ShapeBox[3] /\ ShapeBox[2] <= ShapeBox[4]
     /\ OutsideGrid(ShapeBox)) => buf = pre

\* C2: is_off_grid answers True exactly when xmin < 0 or ymin < 0 or
\* xmax >= width or ymax >= height, and a call of it leaves the buffer alone.
C2_IsOffGridExact ==
    Guarded =>
        /\ call.off = OutsideGrid(call.box)
        /\ call.op = "is_off_grid" => buf = pre

\* C2 witness: a box rejected by its ymax alone, and one accepted.
C2_Witness ==
    /\ call.op = "is_off_grid"
    /\ call.off
    /\ call.box[1] >= 0 /\ call.box[2] >= 0 /\ call.box[3] < Width
    /\ call.box[4] = Height

\* C3: a vertical run lying inside the grid is drawn, by draw_vline and by
\* draw_line between two points of one column: exactly its h pixels take gs,
\* also when the run ends on the last row.
C3_VlineInGridDrawn ==
    /\ (/\ call.op = "draw_vline"
        /\ 0 <= call.x /\ call.x < Width /\ 0 <= call.y /\ call.h >= 1
        /\ call.y + call.h - 1 <= Height - 1)
         => ExactlyPainted({p \in Grid : p[1] = call.x /\ call.y <= p[2]
                                          /\ p[2] <= call.y + call.h - 1},
                           call.gs)
    /\ (/\ call.op = "draw_line"
        /\ call.x1 = call.x2 /\ call.y1 # call.y2
        /\ 0 <= call.x1 /\ call.x1 < Width
        /\ 0 <= Min(call.y1, call.y2) /\ Max(call.y1, call.y2) <= Height - 1)
         => ExactlyPainted({p \in Grid : p[1] = call.x1
                                          /\ Min(call.y1, call.y2) <= p[2]
                                          /\ p[2] <= Max(call.y1, call.y2)},
                           call.gs)

\* C4: an in-bounds draw_pixel(x, y, v) reads back v, and changes only the
\* nibble of byte y * byteWidth + x / 2 chosen by the parity of x (high for
\* even x, low for odd x).
C4_PixelRoundTrip ==
    (call.op = "draw_pixel" /\ ~call.off) =>
        LET i0 == call.y * ByteWidth + (call.x \div 2)
        IN  /\ GetPixel(buf, call.x, call.y) = call.gs
            /\ \A i \in 0..(BufferLength - 1) : i # i0 => buf[i] = pre[i]
            /\ IF call.x % 2 = 0
                 THEN /\ buf[i0] \div 16 = call.gs
                      /\ buf[i0] % 16 = pre[i0] % 16
                 ELSE /\ buf[i0] % 16 = call.gs
                      /\ buf[i0] \div 16 = pre[i0] \div 16

\* C4 witness: a pixel of an odd column written with 6 on a frame of 9s.
C4_Witness ==
    /\ call.op = "draw_pixel" /\ ~call.off
    /\ call.x % 2 = 1 /\ call.y > 0 /\ call.gs = 6
    /\ \A p \in Grid : GetPixel(pre, p[1], p[2]) = 9
    /\ GetPixel(buf, call.x - 1, call.y) = 9

\* C5: fill_rectangle of a rectangle inside the grid sets exactly the pixels
\* x <= px < x + w, y <= py < y + h to gs.
C5_FillRectExact ==
    (/\ call.op = "fill_rectangle"
     /\ call.x >= 0 /\ call.y >= 0
     /\ call.x + call.w <= Width /\ call.y + call.h <= Height)
      => ExactlyPainted({p \in Grid :
                           /\ call.x <= p[1] /\ p[1] < call.x + call.w
                           /\ call.y <= p[2] /\ p[2] < call.y + call.h},
                        call.gs)

\* C5 witness: a 2 x 2 or larger rectangle off the left and top edges,
\* reaching the right and bottom edges, in a colour the frame did not have.
C5_Witness ==
    /\ call.op = "fill_rectangle"
    /\ call.x >= 1 /\ call.y >= 1 /\ call.w >= 2 /\ call.h >= 2
    /\ call.x + call.w = Width /\ call.y + call.h = Height
    /\ GetPixel(buf, Width - 1, Height - 1) = call.gs
    /\ GetPixel(pre, Width - 1, Height - 1) # call.gs
    /\ GetPixel(buf, call.x - 1, call.y) # call.gs

\* C6: draw_line between two points of one row of the grid sets exactly the
\* pixels from the smaller to the larger x, both included, whatever the
\* order of the endpoints.
C6_HlineExact ==
    (/\ call.op = "draw_line" /\ call.y1 = call.y2
     /\ 0 <= call.y1 /\ call.y1 < Height
     /\ 0 <= Min(call.x1, call.x2) /\ Max(call.x1, call.x2) < Width)
      => ExactlyPainted({p \in Grid :
                           /\ p[2] = call.y1
                           /\ Min(call.x1, call.x2) <= p[1]
                           /\ p[1] <= Max(call.x1, call.x2)},
                        call.gs)

\* C6 witness: a horizontal line given right end first, drawn.
C6_Witness ==
    /\ call.op = "draw_line" /\ call.y1 = call.y2
    /\ call.x1 = Width - 1 /\ call.x2 = 1 /\ call.y1 = Height - 1
    /\ GetPixel(buf, 1, call.y1) = call.gs
    /\ GetPixel(pre, 1, call.y1) # call.gs
    /\ GetPixel(buf, 0, call.y1) # call.gs

\* A pixel the last call set: it holds the call's gs and did not before.
IsSet(x, y) ==
    /\ <<x, y>> \in Grid
    /\ GetPixel(buf, x, y) = call.gs
    /\ GetPixel(pre, x, y) # call.gs

\* C10: fill_circle on a cleared buffer, its extent inside the grid, sets a
\* pixel set symmetric about the centre under the 8 octant reflections, also
\* when its lowest pixel is on the last row.
C10_FillCircleSymmetric ==
    (/\ call.op = "fill_circle"
     /\ \A p \in Grid : GetPixel(pre, p[1], p[2]) = 0
     /\ call.gs # 0
     /\ call.x0 - call.r >= 0 /\ call.x0 + call.r <= Width - 1
     /\ call.y0 - call.r >= 0 /\ call.y0 + call.r <= Height - 1)
      => \A dx \in (-call.r)..call.r, dy \in (-call.r)..call.r :
           IsSet(call.x0 + dx, call.y0 + dy) =>
               /\ IsSet(call.x0 - dx, call.y0 + dy)
               /\ IsSet(call.x0 + dx, call.y0 - dy)
               /\ IsSet(call.x0 - dx, call.y0 - dy)
               /\ IsSet(call.x0 + dy, call.y0 + dx)
               /\ IsSet(call.x0 - dy, call.y0 + dx)
               /\ IsSet(call.x0 + dy, call.y0 - dx)
               /\ IsSet(call.x0 - dy, call.y0 - dx)

\* The calls that load a bitmap file onto the live buffer.
BitmapOps == {"draw_bitmap_GS4", "draw_bitmap_mono", "draw_bitmap_raw"}

\* C7: a bitmap whose w * h exceeds the size limit is rejected: the display
\* buffer is as before the call.
C7_SizeLimitRejected ==
    (call.op \in BitmapOps /\ call.w * call.h > SizeLimit) => buf = pre

C9_InvertTwice ==
    /\ call.op = "__init__" =>
         /\ \A v \in 0..15 : InvertGS4(InvertGS4(v)) = v
         /\ \A v \in 0..1 : InvertMono(InvertMono(v)) = v
         /\ \A v \in 0..255 : InvertRaw(InvertRaw(v)) = v
    /\ (call.op = "draw_sprite" /\ sprite.invert /\ call.invert) =>
         buf = DrawSpriteBuf(pre, PaletteInit,
                             LoadedSprite(sprite.path, sprite.w0, sprite.h0,
                                          FALSE, sprite.rotate),
                             call.x, call.y, call.w, call.h, FALSE, call.gs)

\* C9 witness: an inverted sprite with a lit and an unlit pixel, drawn
\* inverted inside the grid in shade 9.
C9_Witness ==
    /\ call.op = "draw_sprite" /\ ~call.off
    /\ sprite.invert /\ call.invert /\ call.gs = 9
    /\ \E c \in DOMAIN sprite.px, d \in DOMAIN sprite.px :
         sprite.px[c] # sprite.px[d]
    /\ buf # pre

\* C11: the fill and the outline of a regular polygon agree: with all the
\* vertices inside the grid, every pixel draw_polygon sets from the same
\* starting buffer is set by fill_polygon.
C11_OutlineInsideFill ==
    (/\ call.op = "fill_polygon"
     /\ \A i \in DOMAIN call.coords : call.coords[i] \in Grid)
      => \A p \in DrawLinesSet(call.coords) :
             GetPixel(buf, p[1], p[2]) = call.gs

RECURSIVE AdvanceSum(_, _, _, _, _)
\* Sum over the first n letters of text of (size + spacing), the size being
\* the height get_letter reports when byHeight and the width otherwise.
AdvanceSum(text, n, rotate, spacing, byHeight) ==
    IF n = 0
      THEN 0
      ELSE GetLetterSize(text[n], rotate)[IF byHeight THEN 2 ELSE 1] + spacing
             + AdvanceSum(text, n - 1, rotate, spacing, byHeight)

\* The point at distance d from (x, y) along the direction of the text:
\* +x, +y, -x, -y for 0, 90, 180, 270.
TextPoint(x, y, rotate, d) ==
    CASE rotate = 0 -> <<x + d, y>>
      [] rotate = 90 -> <<x, y + d>>
      [] rotate = 180 -> <<x - d, y>>
      [] rotate = 270 -> <<x, y - d>>

\* The letters of the last draw_text are where the sums of the advances put
\* them, and so is the cursor after the last letter of a text drawn whole.
TextLaidOut(byHeight) ==
    /\ \A k \in 1..Len(call.at) :
         call.at[k] = TextPoint(call.x, call.y, call.rotate,
                                AdvanceSum(call.text, k - 1, call.rotate,
                                           call.spacing, byHeight))
    /\ ~call.stopped =>
         <<call.cx, call.cy>> =
             TextPoint(call.x, call.y, call.rotate,
                       AdvanceSum(call.text, Len(call.text), call.rotate,
                                  call.spacing, byHeight))

\* C12 as stated: draw_text hands letter k to draw_letter at the start plus
\* the sum of (w_i + spacing) over the letters before it, w_i the width the
\* font reports, along +x, +y, -x, -y for 0, 90, 180, 270, and leaves the
\* cursor at the sum over all letters; widths 5 and 7 with spacing 1 from
\* x = 0 put the second letter at x = 6 and the cursor at x = 13.
C12_AdvanceByWidth ==
    call.op = "draw_text" =>
        /\ TextLaidOut(FALSE)
        /\ (/\ call.text = <<"m", "w">> /\ call.rotate = 0
            /\ call.spacing = 1 /\ call.x = 0)
             => call.at[2][1] = 6 /\ call.cx = 13

\* C12 amended: at 0 and 180 the advance of a letter is w_i + spacing, at 90
\* and 270 it is h_i + spacing, h_i the height the font reports for the
\* rotated glyph; widths 5 and 7 with spacing 1 from x = 0 put the second
\* letter at x = 6 and the cursor at x = 14.
C12_AdvanceAlongText ==
    call.op = "draw_text" =>
        /\ TextLaidOut(call.rotate \in {90, 270})
        /\ (/\ call.text = <<"m", "w">> /\ call.rotate = 0
            /\ call.spacing = 1 /\ call.x = 0)
             => call.at[2][1] = 6 /\ call.cx = 14

\* C12 witness: "ab" drawn whole from top to bottom with spacing 1, the
\* glyph of "a" being narrower than high.
C12_Witness ==
    /\ call.op = "draw_text" /\ ~call.stopped
    /\ call.text = <<"a", "b">> /\ call.rotate = 90 /\ call.spacing = 1
    /\ Len(call.at) = 2
    /\ call.at[2] = <<call.x, call.y + 2>>
    /\ buf # pre

\* What draw_text leaves when it draws only the letters before the one it
\* stopped at.
DrawnBeforeStop ==
    TextLoop(pre, call.palette, call.x, call.y,
             SubSeq(call.text, 1, Len(call.at)), 1, call.invert, call.gs,
             call.rotate, call.spacing, <<>>)

\* C13: when the font reports zero width or zero height for a letter,
\* draw_text stops without raising: that letter and the later ones change
\* neither the buffer nor the palette, the letters before it stay drawn, and
\* the call reports how many letters it drew.
C13_StopsAndReports ==
    (call.op = "draw_text" /\ call.stopped) =>
        /\ buf = DrawnBeforeStop.buf
        /\ palette = DrawnBeforeStop.palette
        /\ call.ret = <<Len(call.at)>>

----------------------------------------------------------------------------
(* Properties of the transport *)

\* What went over the bus during the last call: for every spi.write, in
\* order, the level of the data/command line and the bytes written.
Wire ==
    LET s == SelectSeq(bus.log, LAMBDA e : e.ev = "spi")
    IN  [i \in 1..Len(s) |-> <<s[i].dc, s[i].v>>]

\* The address programming of the window (x0, y0)..(x1, y1) as the
\* controller expects it: 0x15 and the columns moved by 28, 0x75 and the
\* rows, 0x5C.
WindowWire(x0, y0, x1, y1) ==
    << <<0, <<21>>>>, <<1, <<x0 + 28, x1 + 28>>>>,
       <<0, <<117>>>>, <<1, <<y0, y1>>>>,
       <<0, <<92>>>> >>

\* A data burst of the whole of buffer b, first byte first.
WholeBuffer(d, b) ==
    /\ d[1] = 1
    /\ Len(d[2]) = ((Width + 1) \div 2) * Height
    /\ \A i \in 1..Len(d[2]) : d[2][i] = b[i - 1]

\* C14: present() on an initialised bus programs the window of the whole
\* buffer (columns 28 .. width/4 - 1 + 28, rows 0 .. height - 1) and then
\* sends, as one data burst and nothing else, the byteWidth * height bytes
\* of the buffer in buffer order as they were when it was called.
C14_PresentWholeBuffer ==
    (call.op = "present" /\ bus.was.up) =>
        /\ Len(Wire) = 6
        /\ SubSeq(Wire, 1, 5) = WindowWire(0, 0, Width \div 4 - 1, Height - 1)
        /\ WholeBuffer(Wire[6], pre)
        /\ buf = pre

\* present() of a frame whose bytes are not all the same.
C14_Witness ==
    /\ call.op = "present"
    /\ bus.was.up
    /\ Len(Wire) = 6
    /\ \E i, j \in DOMAIN buf : buf[i] # buf[j]

\* C15: set_address(x0, y0, x1, y1) sends 0x15 with (x0 + 28, x1 + 28),
\* then 0x75 with (y0, y1), then 0x5C, and nothing else; every burst of
\* the whole buffer, in present(), clear(), cleanup() and the constructor,
\* comes right after 0x5C, which comes after the row and the column
\* programming.
C15_AddressThenWriteRam ==
    /\ (call.op = "set_address" /\ bus.was.up) =>
           Wire = WindowWire(call.x0, call.y0, call.x1, call.y1)
    /\ (call.op \in {"present", "clear", "cleanup", "__init__"}
            /\ bus.was.up) =>
           \A i \in 1..Len(Wire) :
               (Wire[i][1] = 1 /\ Len(Wire[i][2]) = BufferLength) =>
                   /\ i > 5
                   /\ Wire[i - 1] = <<0, <<92>>>>
                   /\ Wire[i - 3] = <<0, <<117>>>>
                   /\ Wire[i - 2][1] = 1
                   /\ Wire[i - 5] = <<0, <<21>>>>
                   /\ Wire[i - 4][1] = 1

\* set_address of a window that is not the whole buffer.
C15_Witness ==
    /\ call.op = "set_address"
    /\ bus.was.up
    /\ call.x0 = 1
    /\ call.y1 = 0
    /\ Len(Wire) = 5

\* C16: every opcode goes out with the data/command line low, every
\* parameter or pixel byte with it high, all of them with chip-select
\* low; chip-select is raised right after each write, so between an
\* opcode and its parameters; chip-select is high when a call returns.
C16_Framing ==
    /\ \A i \in 1..Len(bus.log) :
           bus.log[i].ev = "spi" =>
               /\ bus.log[i].as = "opcode" => bus.log[i].dc = 0
               /\ bus.log[i].as = "data" => bus.log[i].dc = 1
               /\ bus.log[i].cs = 0
               /\ i < Len(bus.log)
               /\ bus.log[i + 1].ev = "cs"
               /\ bus.log[i + 1].v = <<1>>
    /\ ~bus.raised => bus.cs = 1

\* What was done to the reset line and the clock before the first write
\* of the last call ends with the pulse: low, a delay, high, a delay.
ResetPulseBeforeFirstByte ==
    LET first == CHOOSE k \in 1..Len(bus.log) :
                     /\ bus.log[k].ev = "spi"
                     /\ \A m \in 1..(k - 1) : bus.log[m].ev # "spi"
        s == SelectSeq(SubSeq(bus.log, 1, first - 1),
                       LAMBDA e : e.ev \in {"rst", "sleep_ms"})
        n == Len(s)
    IN  /\ \E k \in 1..Len(bus.log) : bus.log[k].ev = "spi"
        /\ n >= 4
        /\ s[n - 3].ev = "rst" /\ s[n - 3].v = <<0>>
        /\ s[n - 2].ev = "sleep_ms" /\ s[n - 2].v[1] > 0
        /\ s[n - 1].ev = "rst" /\ s[n - 1].v = <<1>>
        /\ s[n].ev = "sleep_ms" /\ s[n].v[1] > 0

\* The opcodes of the last call in the order they were sent.
Opcodes ==
    LET s == SelectSeq(Wire, LAMBDA t : t[1] = 0)
    IN  [i \in 1..Len(s) |-> s[i][2][1]]

\* C17: in the constructor the reset pulse is over before the first byte;
\* the first command is 0xFD with 0x12; 0xAE comes next and 0xAF once,
\* after every register-configuration command; after 0xAF only the
\* window of the first frame is programmed and the frame sent is all
\* zero.
C17_ConstructionOrder ==
    call.op = "__init__" =>
        LET n == Len(Opcodes)
        IN  /\ ResetPulseBeforeFirstByte
            /\ Wire[1] = <<0, <<253>>>>
            /\ Wire[2] = <<1, <<18>>>>
            /\ n > 6
            /\ Opcodes[2] = 174
            /\ Opcodes[n - 3] = 175
            /\ \A i \in 3..(n - 4) :
                   Opcodes[i] \notin {253, 174, 175, 21, 117, 92}
            /\ SubSeq(Opcodes, n - 2, n) = <<21, 117, 92>>
            /\ WholeBuffer(Wire[Len(Wire)], ZeroBuffer)
            /\ buf = ZeroBuffer

\* The state the constructor leaves: commands were sent, the last
\* write was a data burst.
C17_Witness ==
    /\ call.op = "__init__"
    /\ Len(Opcodes) = 24
    /\ Wire[Len(Wire)][1] = 1

\* C18: cleanup() on an initialised bus clears the buffer, presents the
\* cleared frame, sends 0xAE and releases the bus: the last frame sent is
\* all zero, 0xAE is the last byte on the bus and the release is the last
\* thing done.
C18_CleanupOrder ==
    (call.op = "cleanup" /\ bus.was.up) =>
        /\ buf = ZeroBuffer
        /\ Len(Wire) = 7
        /\ SubSeq(Wire, 1, 5) = WindowWire(0, 0, Width \div 4 - 1, Height - 1)
        /\ WholeBuffer(Wire[6], ZeroBuffer)
        /\ Wire[7] = <<0, <<174>>>>
        /\ bus.log[Len(bus.log)].ev = "deinit"
        /\ \A i \in 1..(Len(bus.log) - 1) : bus.log[i].up
        /\ ~bus.up

\* cleanup() of a frame that had something drawn on it.
C18_Witness ==
    /\ call.op = "cleanup"
    /\ bus.was.up
    /\ ~bus.up
    /\ pre # ZeroBuffer
    /\ buf = ZeroBuffer

\* C19: once cleanup() has released the bus nothing is written on it:
\* every write of every call finds the bus initialised.
C19_CleanupTerminal ==
    \A i \in 1..Len(bus.log) : bus.log[i].ev = "spi" => bus.log[i].up

\* The calls that draw and the calls that talk to the controller.
DrawingOps ==
    {"clear_buffers", "is_off_grid", "draw_pixel", "draw_hline",
     "draw_vline", "draw_line", "draw_rectangle", "fill_rectangle",
     "draw_circle", "fill_circle", "load_sprite", "draw_sprite",
     "draw_bitmap_GS4", "draw_bitmap_mono", "draw_bitmap_raw",
     "draw_polygon", "fill_polygon", "draw_text"}

TransportOps ==
    {"present", "set_address", "sleep", "wake",
     "set_display_enhancement_a", "set_display_enhancement_b"}

\* C20: a drawing call writes nothing on the bus and leaves chip-select
\* and data/command as they were; a transport call leaves every byte of
\* the buffer as it was, and what present() sends is the buffer as the
\* drawing calls left it.
C20_DrawAndSendApart ==
    /\ call.op \in DrawingOps =>
           /\ bus.log = <<>>
           /\ bus.cs = bus.was.cs
           /\ bus.dc = bus.was.dc
    /\ call.op \in TransportOps => buf = pre
    /\ (call.op = "present" /\ Len(Wire) > 0) =>
           WholeBuffer(Wire[Len(Wire)], buf)

\* A transport call that sent something while the frame held a drawing.
C20_Witness ==
    /\ call.op \in TransportOps \ {"present"}
    /\ bus.log # <<>>
    /\ buf = pre
    /\ \E i, j \in DOMAIN buf : buf[i] # buf[j]

----------------------------------------------------------------------------
(* Properties of the polygon fill, the text gaps and the sprite loader *)

\* The rows fill_polygon recorded in its last call.
PolygonRows == {p[2] : p \in XDictPoints(call.coords)}

\* The rows from the topmost to the bottommost vertex of the last polygon.
VertexRows ==
    {y \in 0..(Height - 1) :
        /\ \E i \in DOMAIN call.coords : call.coords[i][2] <= y
        /\ \E i \in DOMAIN call.coords : call.coords[i][2] >= y}

\* Row y of the buffer holds the run min..max+1 of the last fill_polygon,
\* as far as the grid goes, and is as before elsewhere.
RowFilled(y) ==
    LET pts == XDictPoints(call.coords)
        lo == XDictMin(pts, y)
        hi == XDictMax(pts, y) + 1
    IN  \A x \in 0..(Width - 1) :
            GetPixel(buf, x, y) =
                IF lo <= x /\ x <= hi THEN call.gs ELSE GetPixel(pre, x, y)

\* C21: fill_polygon of a polygon whose vertices are on the grid records
\* every row from its topmost to its bottommost vertex and fills, on each
\* recorded row, the run from the smallest x touched to the largest x
\* touched plus one, and nothing else.
C21_RowsFilledMinToMaxPlusOne ==
    (/\ call.op = "fill_polygon"
     /\ \A i \in DOMAIN call.coords : call.coords[i] \in Grid)
      => /\ PolygonRows = VertexRows
         /\ \A y \in PolygonRows : RowFilled(y)
         /\ \A y \in (0..(Height - 1)) \ PolygonRows :
                \A x \in 0..(Width - 1) :
                    GetPixel(buf, x, y) = GetPixel(pre, x, y)

\* The pixels of the glyph handed to draw_letter at (x, y).
GlyphBox(x, y, w, h, rotate) ==
    LET lx == IF rotate = 180 THEN x - w ELSE x
        ly == IF rotate = 270 THEN y - h ELSE y
    IN  (lx..(lx + w - 1)) \X (ly..(ly + h - 1))

\* The gap next to that glyph in the direction the text runs.
GapBox(x, y, w, h, rotate, spacing) ==
    CASE rotate = 0 -> ((x + w)..(x + w + spacing - 1)) \X (y..(y + h - 1))
      [] rotate = 90 -> (x..(x + w - 1)) \X ((y + h)..(y + h + spacing - 1))
      [] rotate = 180 ->
           ((x - w - spacing)..(x - w - 1)) \X (y..(y + h - 1))
      [] rotate = 270 ->
           (x..(x + w - 1)) \X ((y - h - spacing)..(y - h - 1))

\* The gap of the k-th letter of the last draw_text.
GapOf(k) ==
    LET wh == GetLetterSize(call.text[k], call.rotate)
    IN  GapBox(call.at[k][1], call.at[k][2], wh[1], wh[2], call.rotate,
               call.spacing)

\* The k-th letter of the last draw_text was drawn whole, on the grid.
GlyphOnGrid(k) ==
    LET wh == GetLetterSize(call.text[k], call.rotate)
    IN  GlyphBox(call.at[k][1], call.at[k][2], wh[1], wh[2], call.rotate)
            \subseteq Grid

\* C22: after draw_text with spacing > 0, next to every glyph that was
\* drawn on the grid the pixels of the gap hold the background value: 0,
\* or gs when invert is true.
C22_GapHoldsBackground ==
    (call.op = "draw_text" /\ call.spacing > 0) =>
        \A k \in 1..Len(call.at) :
            GlyphOnGrid(k) =>
                \A p \in GapOf(k) \cap Grid :
                    GetPixel(buf, p[1], p[2]) =
                        IF call.invert THEN call.gs ELSE 0

\* C23: load_sprite with rotate 90 or 270 leaves the display buffer alone
\* and returns a buffer of width h and height w whose backing store holds
\* that geometry: ceil(h / 8) * w bytes are needed and no pixel write of
\* the rotation loop falls outside what was allocated.
C23_RotatedSpriteFits ==
    (call.op = "load_sprite" /\ call.rotate \in {90, 270}) =>
        /\ buf = pre
        /\ ~call.raised
        /\ ~call.overflow
        /\ sprite.w = call.h
        /\ sprite.h = call.w
        /\ ((call.h + 7) \div 8) * call.w <= sprite.alloc

----------------------------------------------------------------------------
(* Properties of the address window, the bitmaps, the enhancement commands
   and the palette *)

\* C24: the burst present() sends has as many bytes as the window it
\* programs holds (columns of two bytes each, times rows); the window's end
\* column is not below its start column and both are at most 0x77.
C24_BurstFitsWindow ==
    (call.op = "present" /\ bus.was.up) =>
        LET cols == Wire[2][2]
            rows == Wire[4][2]
        IN  /\ Len(Wire[6][2]) =
                   (cols[2] - cols[1] + 1) * 2 * (rows[2] - rows[1] + 1)
            /\ cols[1] <= cols[2]
            /\ cols[1] \in 0..119
            /\ cols[2] \in 0..119

\* C25: after draw_bitmap_mono of an image within the size limit, at every
\* rotation, each pixel of the image that is on the grid holds gs where the
\* source bit is lit and 0 where it is not, the two swapped when invert is
\* true.
C25_MonoUsesGs ==
    (call.op = "draw_bitmap_mono" /\ call.w * call.h <= SizeLimit) =>
        \A p \in LoopSet(call.x, call.y, OutW(call.rotate, call.w, call.h),
                         OutH(call.rotate, call.w, call.h)) :
            LET pass == PassOf(call.rotate, p[1] - call.x, p[2] - call.y)
                src == MonoSrc(call.rotate, pass[1], pass[2], call.w, call.h)
                lit == MonoFilePixel(call.path, call.w, src[1], src[2]) = 1
            IN  GetPixel(buf, p[1], p[2]) =
                    IF lit # call.invert THEN call.gs ELSE 0

\* The parameter bytes of the last command on the log of bus b.
SentParams(b) ==
    LET s == SelectSeq(b.log, LAMBDA e : e.ev = "spi" /\ e.dc = 1)
    IN  s[Len(s)].v

\* C26: set_display_enhancement_b sends, with 0xD1, parameters that differ
\* from those the other value of `enhanced` gives; set_display_enhancement_a
\* sends a pair that differs from the pair of each of the three other
\* combinations of its options, and with both options true the pair the
\* constructor sent with 0xB4.
C26_OptionsChangeBytes ==
    /\ (call.op = "set_display_enhancement_b" /\ bus.was.up) =>
           /\ Wire[1] = <<0, <<209>>>>
           /\ Wire[2][2] #
                  SentParams(EnhancementBBus(BusAtPowerUp, ~call.enhanced))
    /\ (call.op = "set_display_enhancement_a" /\ bus.was.up) =>
           /\ Wire[1] = <<0, <<180>>>>
           /\ \A v, q \in BOOLEAN :
                  <<v, q>> # <<call.external_vsl, call.enhanced_gs_quality>>
                      => Wire[2][2] #
                            SentParams(EnhancementABus(BusAtPowerUp, v, q))
           /\ (call.external_vsl /\ call.enhanced_gs_quality) =>
                  \E i \in DOMAIN InitCommands :
                      /\ Head(InitCommands[i]) = 180
                      /\ Wire[2][2] = Tail(InitCommands[i])

\* The (background, foreground) pair a palette-based blit asks for.
PalettePair(invert, gs) == IF invert THEN <<gs, 0>> ELSE <<0, gs>>

\* C27: the palette is (0, 15) after construction and always (0, gs) or
\* (gs, 0); after draw_sprite, draw_bitmap_mono at rotation 0 and a
\* draw_text that drew a letter it is the pair of that call; what
\* draw_sprite writes is the foreground for a set bit of the sprite and
\* the background for a clear one, whatever palette earlier calls left; a
\* draw_sprite rejected by the bounds guard leaves palette and buffer as
\* they were.
C27_PaletteNoHiddenState ==
    LET now == <<palette \div 16, palette % 16>>
    IN  /\ call.op = "__init__" => now = <<0, 15>>
        /\ now[1] = 0 \/ now[2] = 0
        /\ (call.op = "draw_sprite" /\ ~call.off) =>
               /\ now = PalettePair(call.invert, call.gs)
               /\ \A px \in call.x..(call.x + call.w - 1),
                     py \in call.y..(call.y + call.h - 1) :
                      GetPixel(buf, px, py) =
                          PalettePair(call.invert, call.gs)[
                              sprite.px[<<px - call.x, py - call.y>>] + 1]
        /\ (call.op = "draw_sprite" /\ call.off) =>
               /\ palette = call.palette
               /\ buf = pre
        /\ (call.op = "draw_bitmap_mono" /\ call.rotate = 0) =>
               now = PalettePair(call.invert, call.gs)
        /\ (call.op = "draw_text" /\ Len(call.at) > 0) =>
               now = PalettePair(call.invert, call.gs)

\* A sprite drawn after an earlier call left another palette behind.
C27_Witness ==
    /\ call.op = "draw_sprite"
    /\ ~call.off
    /\ call.palette # PaletteInit
    /\ call.palette # palette
    /\ buf # pre

============================================================================
